---------------------------- MODULE Spec2Model ----------------------------
(***************************************************************************)
(* Model of anitrack's local episode detection and season split engine:    *)
(*   - EpisodeMatcher::from_pattern / episode_matcher_with_pattern         *)
(*   - EpisodeList::parse (directory scan)                                 *)
(*   - SplitAction::from_merged_seasons (split action builder)             *)
(*   - ResolvedSeries::perform_split_actions (split executor)              *)
(*   - MergedSeries::resolve / resolve_merged_season (season resolution)   *)
(*   - SplitSeriesPanel: the background split task and the panel state    *)
(*   - MergedSeries::split_all (a batch of resolution outcomes)           *)
(*   - Series: the list entry of a tracked series and its synchronisation *)
(*   - UIState: keys, ticks and the player process being watched          *)
(* Text (patterns, file names) is a sequence of one-character strings, so  *)
(* that substring search, replacement, trimming and number formatting are  *)
(* computed character by character as the code does.                       *)
(* Every component has its own specification over its own variables; the   *)
(* variables of the other components stay at their idle value.             *)
(***************************************************************************)
EXTENDS Integers, Sequences, FiniteSets, TLC

VARIABLES
    pattern,    \* matcher: the pattern text handed to the constructor
    matcher,    \* matcher: outcome of the last constructor call
    dir,        \* scanner: the directory's entries in enumeration order
    regex,      \* scanner: the matcher's pattern the scan is run with
    scan,       \* scanner: outcome of EpisodeList::parse
    season,     \* builder: the sequel's remote info (title, episodes)
    sorted,     \* builder: the local SortedEpisodes
    offset,     \* builder: the episode offset of the season
    built,      \* builder: outcome of SplitAction::from_merged_seasons
    series,     \* executor: the ResolvedSeries that is split
    fs,         \* executor: the base and output directories on disk
    prev,       \* executor: the run of perform_split_actions before the last
    last,       \* executor: the last run of perform_split_actions
    nruns,      \* executor: number of runs so far
    remote,     \* resolver: the remote catalogue (base, season chain, movie)
    local,      \* resolver: the local CategorizedEpisodes
    order,      \* resolver: the order in which episodes.iter() yields them
    pc,         \* resolver: where MergedSeries::resolve stands
    cat,        \* resolver: index in order of the category being handled
    walk,       \* resolver: info, episode_offset and highest_episode of the walk
    results,    \* resolver: the Vec<MergedSeries> built so far
    ret,        \* resolver: what resolve returned
    events,     \* resolver: the remote lookups and sleeps made, in order
    panel_state,\* panel: the PanelState held by the ArcMutex
    split_task, \* panel: where the spawned task stands, and its outcome
    locks,      \* panel: the holder of the shared state's and the panel's lock
    shared,     \* panel: the shared UI state the task reads and writes
    drawn,      \* panel: the panel state the last draw rendered
    ui,         \* panel: where the UI thread is and whether it holds the shared state
    key_result, \* panel: the last call of process_key: the state it met, what it returned
    merged,     \* batch: the outcomes handed to MergedSeries::split_all
    disk,       \* batch: the base directory and each outcome's output directory
    split_all,  \* batch: what split_all did and returned
    tracker,    \* series: the Series (info.episodes and its SeriesEntry)
    offline,    \* series: remote.is_offline()
    tracker_call, \* series: the last call on the Series: what it met, requested, returned
    rewatch,    \* series: the rewatch under way since begin_watching met Completed
    ui_state,   \* watch: the UIState (watch state, selection, status bar, last command)
    child,      \* watch: the child process held by WatchState::Watching
    players,    \* watch: the player processes that are running
    time_up,    \* watch: Utc::now() >= progress_time
    watch_log,  \* watch: players started and exited, exits handled, episodes completed
    ui_event    \* watch: the last key or tick: what it observed and returned

mvars == <<pattern, matcher>>
svars == <<dir, regex, scan>>
bvars == <<season, sorted, offset, built>>
xvars == <<series, fs, prev, last, nruns>>
rvars == <<remote, local, order, pc, cat, walk, results, ret, events>>
pvars == <<panel_state, split_task, locks, shared, drawn, ui, key_result>>
avars == <<merged, disk, split_all>>
tvars == <<tracker, offline, tracker_call, rewatch>>
wvars == <<ui_state, child, players, time_up, watch_log, ui_event>>

vars == <<pattern, matcher, dir, regex, scan, season, sorted, offset, built,
          series, fs, prev, last, nruns,
          remote, local, order, pc, cat, walk, results, ret, events,
          panel_state, split_task, locks, shared, drawn, ui, key_result,
          merged, disk, split_all,
          tracker, offline, tracker_call, rewatch,
          ui_state, child, players, time_up, watch_log, ui_event>>

(***************************************************************************)
(* Bounds                                                                  *)
(***************************************************************************)
\* largest number of fragments a pattern is assembled from
MaxFrags == 3
\* largest number of entries of a scanned directory
MaxEntries == 3
\* builder: largest episode offset, largest episode count of a short season,
\* largest low local episode number, largest number of local files, and the
\* episode count of a long-running season
MaxOffset == 2
MaxSeasonLen == 2
MaxNumber == 4
MaxFiles == 2
LongSeason == 100
\* executor: largest number of actions of a resolved series, and the number
\* of times it is run
MaxActions == 3
MaxRuns == 2
\* resolver: longest chain of season sequels, largest episode count of a
\* season and of the movie, largest local episode number of the season and
\* of the movie category, and the number of failed lookups one walk is
\* followed through
MaxChain == 2
MaxEps == 2
MaxMovieEps == 1
MaxLocal == 3
MaxMovieLocal == 2
MaxFailures == 1
\* panel: largest number of outcomes of a resolution, and of remote calls and
\* sleeps the task is followed through inside resolve
MaxMerged == 2
MaxCalls == 2
\* batch: largest number of outcomes handed to split_all, and of actions of
\* one of its resolved series
MaxBatch == 3
MaxBatchActions == 1
\* series: most episodes of a tracked series and the count of rewatches the
\* calls stop at
MaxSeriesEps == 2
MaxRewatched == 2
\* watch: most players started
MaxPlays == 2

(***************************************************************************)
(* Text helpers                                                            *)
(***************************************************************************)
None == "none"

\* str::contains: sub occurs in s as a contiguous substring
Contains(s, sub) ==
    \E i \in 0..(Len(s) - Len(sub)) : SubSeq(s, i + 1, i + Len(sub)) = sub

\* str::starts_with
StartsWith(s, pre) ==
    Len(pre) <= Len(s) /\ SubSeq(s, 1, Len(pre)) = pre

\* str::ends_with
EndsWith(s, suf) ==
    Len(suf) <= Len(s) /\ SubSeq(s, Len(s) - Len(suf) + 1, Len(s)) = suf

\* str::replace: every non-overlapping occurrence of from, found scanning
\* left to right, is replaced by to
RECURSIVE Replace(_, _, _)
Replace(s, from, to) ==
    IF Len(s) < Len(from) THEN s
    ELSE IF StartsWith(s, from)
         THEN to \o Replace(SubSeq(s, Len(from) + 1, Len(s)), from, to)
         ELSE <<Head(s)>> \o Replace(Tail(s), from, to)

\* concatenation of a sequence of texts
RECURSIVE Flatten(_)
Flatten(ss) ==
    IF ss = <<>> THEN <<>> ELSE Head(ss) \o Flatten(Tail(ss))

(***************************************************************************)
(* Episode matcher (anime/src/local/mod.rs, anup/src/series.rs)            *)
(***************************************************************************)
TitlePlaceholder == <<"{", "t", "i", "t", "l", "e", "}">>
EpisodePlaceholder == <<"{", "e", "p", "i", "s", "o", "d", "e", "}">>
TitleGroupOpen == <<"(", "?", "P", "<", "t", "i", "t", "l", "e", ">">>
EpisodeGroupOpen == <<"(", "?", "P", "<", "e", "p", "i", "s", "o", "d", "e", ">">>
\* "(?P<title>.+)"
TitleGroup == TitleGroupOpen \o <<".", "+", ")">>
\* "(?P<episode>\d+)"
EpisodeGroup == EpisodeGroupOpen \o <<"\\", "d", "+", ")">>

\* number of occurrences of sub in s (overlapping ones counted)
Occurrences(s, sub) ==
    Cardinality({i \in 0..(Len(s) - Len(sub)) :
                    SubSeq(s, i + 1, i + Len(sub)) = sub})

\* nesting depth of parentheses after the first n characters of s
RECURSIVE Depth(_, _)
Depth(s, n) ==
    IF n = 0 THEN 0
    ELSE Depth(s, n - 1) + (CASE s[n] = "(" -> 1 [] s[n] = ")" -> -1 [] OTHER -> 0)

\* Regex::new succeeds: the pattern's groups are closed, none is closed that
\* was not opened, and no capture group name is used twice
RegexCompiles(p) ==
    /\ \A n \in 0..Len(p) : Depth(p, n) >= 0
    /\ Depth(p, Len(p)) = 0
    /\ Occurrences(p, TitleGroupOpen) <= 1
    /\ Occurrences(p, EpisodeGroupOpen) <= 1

MissingGroup(g) == [ok |-> FALSE, err |-> "MissingCustomMatcherGroup", group |-> g]
RegexError == [ok |-> FALSE, err |-> "Regex", group |-> None]
MatcherOk(p) == [ok |-> TRUE, err |-> None, group |-> None, regex |-> p]

\* EpisodeMatcher::from_pattern with the two ensure! checks in the other order
FromPatternEpisodeFirst(p) ==
    IF ~Contains(p, EpisodeGroupOpen) THEN MissingGroup("episode")
    ELSE IF ~Contains(p, TitleGroupOpen) THEN MissingGroup("title")
    ELSE IF ~RegexCompiles(p) THEN RegexError
    ELSE MatcherOk(p)

\* EpisodeMatcher::from_pattern
FromPattern(p) ==
    IF ~Contains(p, TitleGroupOpen) THEN MissingGroup("title")
    ELSE IF ~Contains(p, EpisodeGroupOpen) THEN MissingGroup("episode")
    ELSE IF ~RegexCompiles(p) THEN RegexError
    ELSE MatcherOk(p)

\* EpisodeMatcher::new: the default matcher, EpisodeMatcher(None)
DefaultMatcher == [ok |-> TRUE, err |-> None, group |-> None, regex |-> None]

\* the two str::replace calls of episode_matcher_with_pattern
Substitute(p) ==
    Replace(Replace(p, TitlePlaceholder, TitleGroup),
            EpisodePlaceholder, EpisodeGroup)

\* episode_matcher_with_pattern that hands the pattern on unsubstituted
WithPatternNoSubstitution(p) ==
    LET r == FromPattern(p)
    IN  IF ~r.ok /\ r.err = "MissingCustomMatcherGroup"
        THEN [r EXCEPT !.err = "MissingEpisodeMatcherGroup"]
        ELSE r

\* episode_matcher_with_pattern
WithPattern(p) ==
    LET r == FromPattern(Substitute(p))
    IN  IF ~r.ok /\ r.err = "MissingCustomMatcherGroup"
        THEN [r EXCEPT !.err = "MissingEpisodeMatcherGroup"]
        ELSE r

\* the pieces patterns are assembled from
Fragments ==
    { TitlePlaceholder, EpisodePlaceholder, TitleGroupOpen, EpisodeGroupOpen,
      <<".", "+", ")">>, <<"(">>, <<" ", "-", " ">>, <<"{">> }

RECURSIVE FragSeqs(_)
FragSeqs(n) ==
    IF n = 0 THEN {<<>>}
    ELSE FragSeqs(n - 1) \cup
         {Append(fr, f) : fr \in {x \in FragSeqs(n - 1) : Len(x) = n - 1},
                          f \in Fragments}

Patterns == {Flatten(fr) : fr \in FragSeqs(MaxFrags)}

NoCall == [call |-> None]

MatcherIdle == pattern = <<>> /\ matcher = NoCall

MatcherInit == pattern \in Patterns /\ matcher = NoCall

\* a direct call of EpisodeMatcher::from_pattern(pattern)
CallFromPattern ==
    /\ matcher.call = None
    /\ matcher' = [call |-> "from_pattern", res |-> FromPattern(pattern)]
    /\ UNCHANGED <<pattern, svars, bvars, xvars, rvars, pvars, avars, tvars, wvars>>

\* a call of episode_matcher_with_pattern(pattern)
CallWithPattern ==
    /\ matcher.call = None
    /\ matcher' = [call |-> "with_pattern", res |-> WithPattern(pattern)]
    /\ UNCHANGED <<pattern, svars, bvars, xvars, rvars, pvars, avars, tvars, wvars>>

\* a call of EpisodeMatcher::new()
CallNew ==
    /\ matcher.call = None
    /\ matcher' = [call |-> "new", res |-> DefaultMatcher]
    /\ UNCHANGED <<pattern, svars, bvars, xvars, rvars, pvars, avars, tvars, wvars>>

(***************************************************************************)
(* Episode parsing and directory scan (anime/src/local/mod.rs)             *)
(***************************************************************************)
Digits == {"0", "1", "2", "3", "4", "5", "6", "7", "8", "9"}
WordChars ==
    Digits \cup {"A", "B", "S", "a", "e", "j", "k", "m", "p", "r", "t", "v", "x"}
Whitespace == {" "}

DigitValue(c) ==
    CASE c = "0" -> 0 [] c = "1" -> 1 [] c = "2" -> 2 [] c = "3" -> 3
      [] c = "4" -> 4 [] c = "5" -> 5 [] c = "6" -> 6 [] c = "7" -> 7
      [] c = "8" -> 8 [] c = "9" -> 9

\* str::trim: leading and trailing whitespace removed
RECURSIVE TrimStart(_)
TrimStart(s) ==
    IF s # <<>> /\ Head(s) \in Whitespace THEN TrimStart(Tail(s)) ELSE s

RECURSIVE TrimEnd(_)
TrimEnd(s) ==
    IF s # <<>> /\ s[Len(s)] \in Whitespace
    THEN TrimEnd(SubSeq(s, 1, Len(s) - 1)) ELSE s

Trim(s) == TrimEnd(TrimStart(s))

\* the longest run of characters of class cls that starts at position i of s
RECURSIVE Run(_, _, _)
Run(s, i, cls) ==
    IF i <= Len(s) /\ s[i] \in cls THEN <<s[i]>> \o Run(s, i + 1, cls) ELSE <<>>

\* str::parse::<u32>: None unless the text is a non-empty run of digits
\* (values stay far below 2^32 with the names used here)
RECURSIVE DecimalValue(_)
DecimalValue(ds) ==
    IF ds = <<>> THEN 0
    ELSE 10 * DecimalValue(SubSeq(ds, 1, Len(ds) - 1)) + DigitValue(ds[Len(ds)])

ParseU32(t) ==
    IF t # <<>> /\ \A i \in 1..Len(t) : t[i] \in Digits
    THEN DecimalValue(t) ELSE -1

\* The patterns a scan is run with:
\*   "strict": (?P<title>.+?) - (?P<episode>\d+)    (the documented example)
\*   "loose":  (?:(?P<title>.+?) )?- (?P<episode>\w+)
\* a custom pattern whose title group is optional and whose episode group
\* also takes letters, so that each error of Episode::parse can occur.
Regexes == {"strict", "loose"}

EpisodeClass(re) == IF re = "strict" THEN Digits ELSE WordChars

Separator == <<" ", "-", " ">>

\* positions k >= 2 where " - " starts and an episode character follows
TitledMatches(name, re) ==
    {k \in 2..Len(name) :
        /\ k + 3 <= Len(name)
        /\ SubSeq(name, k, k + 2) = Separator
        /\ name[k + 3] \in EpisodeClass(re)}

\* positions where "- " starts and an episode character follows
UntitledMatches(name) ==
    {k \in 1..Len(name) :
        /\ k + 2 <= Len(name)
        /\ SubSeq(name, k, k + 1) = <<"-", " ">>
        /\ name[k + 2] \in WordChars}

Min(S) == CHOOSE x \in S : \A y \in S : x <= y
Max(S) == CHOOSE x \in S : \A y \in S : x >= y

NoCaptures == [matched |-> FALSE, hasTitle |-> FALSE, title |-> <<>>, episode |-> <<>>]

\* Regex::captures: the leftmost match; the lazy title takes the fewest
\* characters, the episode group the longest run
Captures(name, re) ==
    IF TitledMatches(name, re) # {}
    THEN LET k == Min(TitledMatches(name, re))
         IN  [matched |-> TRUE, hasTitle |-> TRUE,
              title |-> SubSeq(name, 1, k - 1),
              episode |-> Run(name, k + 3, EpisodeClass(re))]
    ELSE IF re = "loose" /\ UntitledMatches(name) # {}
    THEN LET k == Min(UntitledMatches(name))
         IN  [matched |-> TRUE, hasTitle |-> FALSE, title |-> <<>>,
              episode |-> Run(name, k + 2, WordChars)]
    ELSE NoCaptures

ParseError(e) == [ok |-> FALSE, err |-> e, name |-> <<>>, num |-> 0]

\* Episode::parse
EpisodeParse(name, re) ==
    LET caps == Captures(name, re)
    IN  IF ~caps.matched THEN ParseError("NoEpMatches")
        ELSE IF ~caps.hasTitle THEN ParseError("NoEpisodeTitle")
        ELSE IF ParseU32(caps.episode) < 0 THEN ParseError("ExpectedEpNumber")
        ELSE [ok |-> TRUE, err |-> None, name |-> Trim(caps.title),
              num |-> ParseU32(caps.episode)]

PartSuffix == <<".", "p", "a", "r", "t">>

\* an insert that keeps the entry a key already has
InsertKeepFirst(paths, num, path) ==
    [n \in DOMAIN paths \cup {num} |->
        IF n \in DOMAIN paths THEN paths[n] ELSE path]

\* HashMap::insert: a later entry for the same key replaces the earlier one
Insert(paths, num, path) ==
    [n \in DOMAIN paths \cup {num} |-> IF n = num THEN path ELSE paths[n]]

EmptyMap == [n \in {} |-> <<>>]

ScanError(e, at, expecting, found) ==
    [ok |-> FALSE, err |-> e, at |-> at, title |-> None, paths |-> EmptyMap,
     expecting |-> expecting, found |-> found]

ScanOk(title, paths) ==
    [ok |-> TRUE, err |-> None, at |-> 0, title |-> title,
     paths |-> paths, expecting |-> None, found |-> None]

\* the loop of EpisodeList::parse with one of its steps left out:
\*   "part":     the test on the ".part" suffix
\*   "unparsed": the ? on Episode::parse (a file that does not parse is
\*               passed over)
\*   "empty":    the NoEpisodes error (no title gives an empty list)
RECURSIVE ScanLoopWithout(_, _, _, _, _, _)
ScanLoopWithout(step, entries, re, i, title, paths) ==
    IF i > Len(entries)
    THEN IF title = None /\ step # "empty"
         THEN ScanError("NoEpisodes", 0, None, None)
         ELSE ScanOk(title, paths)
    ELSE LET entry == entries[i]
             episode == EpisodeParse(entry.fname, re)
             rest(t, ps) == ScanLoopWithout(step, entries, re, i + 1, t, ps)
         IN  IF entry.isDir THEN rest(title, paths)
             ELSE IF step # "part" /\ EndsWith(entry.fname, PartSuffix)
                  THEN rest(title, paths)
             ELSE IF ~episode.ok
                  THEN IF step = "unparsed" THEN rest(title, paths)
                       ELSE ScanError(episode.err, i, None, None)
             ELSE IF title # None /\ title # episode.name
                  THEN ScanError("MultipleTitles", i, title, episode.name)
             ELSE rest(episode.name, Insert(paths, episode.num, entry.fname))

ScanLoopPartNotSkipped(entries, re, i, title, paths) ==
    ScanLoopWithout("part", entries, re, i, title, paths)

ScanLoopUnparsedSkipped(entries, re, i, title, paths) ==
    ScanLoopWithout("unparsed", entries, re, i, title, paths)

ScanLoopEmptyOk(entries, re, i, title, paths) ==
    ScanLoopWithout("empty", entries, re, i, title, paths)

\* the loop of EpisodeList::parse without the ensure! on the title: the
\* title of each parsed file replaces the expected one
RECURSIVE ScanLoopLastTitle(_, _, _, _, _)
ScanLoopLastTitle(entries, re, i, title, paths) ==
    IF i > Len(entries)
    THEN IF title = None
         THEN ScanError("NoEpisodes", 0, None, None)
         ELSE [ok |-> TRUE, err |-> None, at |-> 0, title |-> title,
               paths |-> paths, expecting |-> None, found |-> None]
    ELSE LET entry == entries[i]
             episode == EpisodeParse(entry.fname, re)
         IN  IF entry.isDir THEN ScanLoopLastTitle(entries, re, i + 1, title, paths)
             ELSE IF EndsWith(entry.fname, PartSuffix)
                  THEN ScanLoopLastTitle(entries, re, i + 1, title, paths)
             ELSE IF ~episode.ok THEN ScanError(episode.err, i, None, None)
             ELSE ScanLoopLastTitle(entries, re, i + 1, episode.name,
                                    Insert(paths, episode.num, entry.fname))

\* the loop of EpisodeList::parse from entry i on, with the title and the
\* paths collected so far
RECURSIVE ScanLoop(_, _, _, _, _)
ScanLoop(entries, re, i, title, paths) ==
    IF i > Len(entries)
    THEN IF title = None
         THEN ScanError("NoEpisodes", 0, None, None)
         ELSE [ok |-> TRUE, err |-> None, at |-> 0, title |-> title,
               paths |-> paths, expecting |-> None, found |-> None]
    ELSE LET entry == entries[i]
             episode == EpisodeParse(entry.fname, re)
         IN  IF entry.isDir THEN ScanLoop(entries, re, i + 1, title, paths)
             ELSE IF EndsWith(entry.fname, PartSuffix)
                  THEN ScanLoop(entries, re, i + 1, title, paths)
             ELSE IF ~episode.ok THEN ScanError(episode.err, i, None, None)
             ELSE IF title # None /\ title # episode.name
                  THEN ScanError("MultipleTitles", i, title, episode.name)
             ELSE ScanLoop(entries, re, i + 1, episode.name,
                           Insert(paths, episode.num, entry.fname))

\* EpisodeList::parse on a directory that can be read
EpisodeListParse(entries, re) == ScanLoop(entries, re, 1, None, EmptyMap)

Mkv == <<".", "m", "k", "v">>

\* the file and directory names a scanned directory is made of
EntryNames ==
    { <<"A", " ", "-", " ", "0", "1">> \o Mkv,
      <<"A", " ", "-", " ", "0", "2">> \o Mkv,
      <<"A", " ", " ", "-", " ", "1">> \o Mkv,
      <<"B", " ", "-", " ", "0", "1">> \o Mkv,
      <<"B", " ", "-", " ", "0", "3">> \o Mkv \o PartSuffix,
      <<"j">> \o PartSuffix,
      <<"j">> \o Mkv,
      <<"-", " ", "0", "2">> \o Mkv,
      <<"A", " ", "-", " ", "x", "1">> \o Mkv,
      <<"B", " ", "-", " ", "0", "9">> }

\* a name is a directory only if it carries no extension here
DirEntries ==
    {[isDir |-> FALSE, fname |-> n] : n \in EntryNames} \cup
    {[isDir |-> TRUE, fname |-> <<"B", " ", "-", " ", "0", "9">>]}

RECURSIVE Listings(_)
Listings(n) ==
    IF n = 0 THEN {<<>>}
    ELSE Listings(n - 1) \cup
         {Append(l, e) : l \in {x \in Listings(n - 1) : Len(x) = n - 1},
                         e \in DirEntries}

\* the names of a directory's entries are distinct
Directories ==
    {l \in Listings(MaxEntries) :
        \A i, j \in 1..Len(l) : i # j => l[i].fname # l[j].fname}

NoScan == [done |-> FALSE]

ScannerIdle == dir = <<>> /\ regex = None /\ scan = NoScan

ScannerInit == dir \in Directories /\ regex \in Regexes /\ scan = NoScan

\* EpisodeList::parse(dir, matcher)
Scan ==
    /\ ~scan.done
    /\ scan' = [done |-> TRUE, res |-> EpisodeListParse(dir, regex)]
    /\ UNCHANGED <<dir, regex, mvars, bvars, xvars, rvars, pvars, avars, tvars, wvars>>

(***************************************************************************)
(* Split action builder (anup/.../split_series/mod.rs)                     *)
(***************************************************************************)
DigitChar(d) ==
    CASE d = 0 -> "0" [] d = 1 -> "1" [] d = 2 -> "2" [] d = 3 -> "3"
      [] d = 4 -> "4" [] d = 5 -> "5" [] d = 6 -> "6" [] d = 7 -> "7"
      [] d = 8 -> "8" [] d = 9 -> "9"

\* Display of an unsigned integer: its decimal digits
RECURSIVE ToDecimal(_)
ToDecimal(n) ==
    IF n < 10 THEN <<DigitChar(n)>>
    ELSE ToDecimal(n \div 10) \o <<DigitChar(n % 10)>>

\* format!("{:0w$}", n): zeros are added on the left up to width w
RECURSIVE PadZero(_, _)
PadZero(t, w) == IF Len(t) >= w THEN t ELSE PadZero(<<"0">> \o t, w)

PadWidth == 2

\* "{:02}" without the zero flag and width
Format02Unpadded(n) == ToDecimal(n)

\* the "{:02}" of from_merged_seasons
Format02(n) == PadZero(ToDecimal(n), PadWidth)

NoExtension == [some |-> FALSE, ext |-> <<>>]

\* Path::extension of a file name: what follows the last dot, None when the
\* name has no dot or its only dot is its first character
Extension(fname) ==
    LET dots == {i \in 1..Len(fname) : fname[i] = "."}
    IN  IF dots = {} \/ Max(dots) = 1 THEN NoExtension
        ELSE [some |-> TRUE, ext |-> SubSeq(fname, Max(dots) + 1, Len(fname))]

\* SortedEpisodes::find: the local episode with this number, if any
Find(episodes, num) ==
    LET at == {i \in 1..Len(episodes) : episodes[i].number = num}
    IN  IF at = {} THEN [some |-> FALSE]
        ELSE [some |-> TRUE, episode |-> episodes[Min(at)]]

\* SortedEpisodes::highest_episode_number (0 for no episodes)
HighestEpisodeNumber(episodes) ==
    IF episodes = <<>> THEN 0 ELSE episodes[Len(episodes)].number

\* SplitAction::new
SplitAction(old, new) == [old_name |-> old, new_name |-> new]

\* the new file name built at lines 414-424
NewFilename(title, index, fname) ==
    LET e == Extension(fname)
        extension == IF e.some THEN <<".">> \o e.ext ELSE <<>>
    IN  title \o <<" ", "-", " ">> \o Format02(index) \o extension

\* one iteration of the loop of from_merged_seasons, for real_ep_num = n:
\* nothing is pushed when no local episode has that number
BuildStep(info, episodes, off, n) ==
    LET found == Find(episodes, n)
    IN  IF ~found.some THEN <<>>
        ELSE <<SplitAction(found.episode.filename,
                           NewFilename(info.title, n - off, found.episode.filename))>>

\* the loop of from_merged_seasons over real_ep_num in n..=stop. An iteration
\* reads only the loop variable and pushes to the end of the vector, so the
\* range is evaluated by halves, in the order of the loop
RECURSIVE BuildLoop(_, _, _, _, _)
BuildLoop(info, episodes, off, n, stop) ==
    IF n > stop THEN <<>>
    ELSE IF n = stop THEN BuildStep(info, episodes, off, n)
    ELSE LET mid == (n + stop) \div 2
         IN  BuildLoop(info, episodes, off, n, mid)
             \o BuildLoop(info, episodes, off, mid + 1, stop)

\* from_merged_seasons with the range starting at the offset itself
FromMergedSeasonsFromOffset(info, episodes, off) ==
    BuildLoop(info, episodes, off, off, off + info.episodes)

\* SplitAction::from_merged_seasons
FromMergedSeasons(info, episodes, off) ==
    LET sequel_start == 1 + off
        sequel_end == off + info.episodes
    IN  BuildLoop(info, episodes, off, sequel_start, sequel_end)

\* ---- the builder's inputs ----
Titles == {<<"S", "2">>, <<"T">>}

\* (prefix, suffix) pairs around "ep<number>": with an extension, without,
\* with an empty one, with two dots, and a dot file without extension
NameShapes ==
    { [pre |-> <<>>, suf |-> Mkv],
      [pre |-> <<>>, suf |-> <<>>],
      [pre |-> <<>>, suf |-> <<".">>],
      [pre |-> <<>>, suf |-> <<".", "v", "2">> \o Mkv],
      [pre |-> <<".">>, suf |-> <<>>] }

FileName(n, shape) == shape.pre \o <<"e", "p">> \o ToDecimal(n) \o shape.suf

\* the episode numbers local files may carry
LocalNumbers == (1..MaxNumber) \cup {LongSeason}

\* the ascending sequence of the numbers of a set
RECURSIVE Ascending(_)
Ascending(S) ==
    IF S = {} THEN <<>> ELSE <<Min(S)>> \o Ascending(S \ {Min(S)})

\* every SortedEpisodes over the numbers of nums
SortedOver(nums) ==
    LET asc == Ascending(nums)
    IN  {[i \in 1..Len(asc) |-> [number |-> asc[i],
                                 filename |-> FileName(asc[i], sh[i])]] :
            sh \in [1..Len(asc) -> NameShapes]}

SortedEpisodesInputs ==
    UNION {SortedOver(nums) :
             nums \in {x \in SUBSET LocalNumbers : Cardinality(x) <= MaxFiles}}

SeasonLengths == (1..MaxSeasonLen) \cup {LongSeason}

NotBuilt == [done |-> FALSE]

BuilderIdle ==
    season = None /\ sorted = <<>> /\ offset = 0 /\ built = NotBuilt

BuilderInit ==
    /\ season \in [title : Titles, episodes : SeasonLengths]
    /\ sorted \in SortedEpisodesInputs
    /\ offset \in 0..MaxOffset
    /\ built = NotBuilt

\* a call of SplitAction::from_merged_seasons(season, sorted, offset)
Build ==
    /\ ~built.done
    /\ built' = [done |-> TRUE,
                 actions |-> FromMergedSeasons(season, sorted, offset)]
    /\ UNCHANGED <<season, sorted, offset, mvars, svars, xvars, rvars, pvars, avars, tvars, wvars>>

(***************************************************************************)
(* Split executor (anup/.../split_series/mod.rs)                           *)
(***************************************************************************)
\* ResolvedSeries::new: the output directory is named after the sequel
ResolvedSeriesNew(info, base_dir, episodes, off) ==
    [info |-> info, base_dir |-> base_dir, out_dir |-> info.title,
     actions |-> FromMergedSeasons(info, episodes, off)]

\* a symlink call that replaces what is at the target name
SymlinkReplacing(entries, action, i, env) ==
    IF i = env.failAt THEN [res |-> "Other", entries |-> entries]
    ELSE [res |-> "Ok",
          entries |-> Insert(entries, action.new_name, action.old_name)]

\* The environment of one run: the directory whose creation fails (if any)
\* and the action whose symlink call fails with an error other than
\* AlreadyExists (0: none); entries maps the names present in the output
\* directory to what they are.
Symlink(entries, action, i, env) ==
    IF i = env.failAt THEN [res |-> "Other", entries |-> entries]
    ELSE IF action.new_name \in DOMAIN entries
         THEN [res |-> "AlreadyExists", entries |-> entries]
         ELSE [res |-> "Ok",
               entries |-> Insert(entries, action.new_name, action.old_name)]

LoopResult(ok, entries, attempted, failed) ==
    [ok |-> ok, entries |-> entries, attempted |-> attempted, failed |-> failed]

\* the loop over the actions that goes on to the next action after any error
RECURSIVE LinkLoopIgnoringErrors(_, _, _, _, _)
LinkLoopIgnoringErrors(actions, i, entries, attempted, env) ==
    IF i > Len(actions) THEN LoopResult(TRUE, entries, attempted, 0)
    ELSE LET r == Symlink(entries, actions[i], i, env)
         IN  LinkLoopIgnoringErrors(actions, i + 1, r.entries, Append(attempted, i), env)

\* the loop over the actions for which an existing target is an error too
RECURSIVE LinkLoopStrict(_, _, _, _, _)
LinkLoopStrict(actions, i, entries, attempted, env) ==
    IF i > Len(actions) THEN LoopResult(TRUE, entries, attempted, 0)
    ELSE LET r == Symlink(entries, actions[i], i, env)
         IN  IF r.res # "Ok"
             THEN LoopResult(FALSE, r.entries, Append(attempted, i), i)
             ELSE LinkLoopStrict(actions, i + 1, r.entries, Append(attempted, i), env)

\* the loop over the actions that removes the links of the actions gone
\* through when one fails
RECURSIVE LinkLoopRollback(_, _, _, _, _)
LinkLoopRollback(actions, i, entries, attempted, env) ==
    IF i > Len(actions) THEN LoopResult(TRUE, entries, attempted, 0)
    ELSE LET r == Symlink(entries, actions[i], i, env)
             made == {actions[k].new_name : k \in 1..i}
         IN  IF r.res = "Other"
             THEN LoopResult(FALSE, [t \in DOMAIN entries \ made |-> entries[t]],
                             Append(attempted, i), i)
             ELSE LinkLoopRollback(actions, i + 1, r.entries, Append(attempted, i), env)

\* the loop over the actions (lines 359-375), from action i on
RECURSIVE LinkLoop(_, _, _, _, _)
LinkLoop(actions, i, entries, attempted, env) ==
    IF i > Len(actions) THEN LoopResult(TRUE, entries, attempted, 0)
    ELSE LET r == Symlink(entries, actions[i], i, env)
         IN  IF r.res = "Other"
             THEN LoopResult(FALSE, r.entries, Append(attempted, i), i)
             ELSE LinkLoop(actions, i + 1, r.entries, Append(attempted, i), env)

RunResult(ok, err, f, attempted, failed, env) ==
    [done |-> TRUE, ok |-> ok, err |-> err, after |-> f,
     attempted |-> attempted, failed |-> failed, env |-> env]

\* perform_split_actions without the early return for no actions
PerformSplitActionsNoEmptyCheck(rs, f, env) ==
    IF ~f.base /\ env.mkdirFail = "base"
    THEN RunResult(FALSE, "dir creation", f, <<>>, 0, env)
    ELSE IF ~f.out /\ env.mkdirFail = "out"
    THEN RunResult(FALSE, "dir creation", [f EXCEPT !.base = TRUE], <<>>, 0, env)
    ELSE LET r == LinkLoop(rs.actions, 1, f.entries, <<>>, env)
         IN  RunResult(r.ok, IF r.ok THEN None ELSE "failed to symlink files",
                       [f EXCEPT !.base = TRUE, !.out = TRUE, !.entries = r.entries],
                       r.attempted, r.failed, env)

\* perform_split_actions with the result of create_dir_all dropped
PerformSplitActionsDirErrorIgnored(rs, f, env) ==
    IF rs.actions = <<>> THEN RunResult(TRUE, None, f, <<>>, 0, env)
    ELSE LET r == LinkLoop(rs.actions, 1, f.entries, <<>>, env)
         IN  RunResult(r.ok, IF r.ok THEN None ELSE "failed to symlink files",
                       [f EXCEPT !.base = @ \/ env.mkdirFail # "base",
                                 !.out = @ \/ env.mkdirFail # "out",
                                 !.entries = r.entries],
                       r.attempted, r.failed, env)

\* ResolvedSeries::perform_split_actions on the directories f
PerformSplitActions(rs, f, env) ==
    IF rs.actions = <<>> THEN RunResult(TRUE, None, f, <<>>, 0, env)
    ELSE IF ~f.base /\ env.mkdirFail = "base"
    THEN RunResult(FALSE, "dir creation", f, <<>>, 0, env)
    ELSE IF ~f.out /\ env.mkdirFail = "out"
    THEN RunResult(FALSE, "dir creation", [f EXCEPT !.base = TRUE], <<>>, 0, env)
    ELSE LET r == LinkLoop(rs.actions, 1, f.entries, <<>>, env)
         IN  RunResult(r.ok, IF r.ok THEN None ELSE "failed to symlink files",
                       [f EXCEPT !.base = TRUE, !.out = TRUE, !.entries = r.entries],
                       r.attempted, r.failed, env)

\* ---- the executor's inputs ----
ExecutorSeason == [title |-> <<"S", "2">>, episodes |-> MaxActions]

ExecutorEpisodes ==
    {[i \in 1..Cardinality(nums) |->
         [number |-> Ascending(nums)[i],
          filename |-> FileName(Ascending(nums)[i], [pre |-> <<>>, suf |-> Mkv])]] :
       nums \in SUBSET (1..MaxActions)}

ResolvedInputs ==
    {ResolvedSeriesNew(ExecutorSeason, <<"b">>, eps, 0) : eps \in ExecutorEpisodes}

Foreign == <<"?">>

Targets(rs) == {rs.actions[i].new_name : i \in 1..Len(rs.actions)}

\* the output directory's content before the first run: any of the targets
\* may be there already, as the link a run would make or as something else
SourceOf(rs, target) ==
    rs.actions[CHOOSE i \in 1..Len(rs.actions) : rs.actions[i].new_name = target].old_name

InitialEntries(rs) ==
    UNION {{[t \in names |-> IF t \in foreign THEN Foreign ELSE SourceOf(rs, t)] :
               foreign \in SUBSET names} : names \in SUBSET Targets(rs)}

InitialDirectories(rs) ==
    {[base |-> b, out |-> TRUE, entries |-> e] :
        b \in BOOLEAN, e \in InitialEntries(rs)}
    \cup {[base |-> b, out |-> FALSE, entries |-> EmptyMap] : b \in BOOLEAN}

\* a directory that exists is not created, so only the creation of a
\* missing one can fail
Environments(rs, f) ==
    [mkdirFail : {None} \cup {d \in {"base", "out"} : ~f[d]},
     failAt : 0..Len(rs.actions)]

NoRun == [done |-> FALSE]

ExecutorIdle ==
    /\ series = None /\ fs = None /\ prev = NoRun /\ last = NoRun /\ nruns = 0

ExecutorInit ==
    /\ series \in ResolvedInputs
    /\ fs \in InitialDirectories(series)
    /\ prev = NoRun /\ last = NoRun /\ nruns = 0

\* one call of series.perform_split_actions(config)
Split ==
    /\ nruns < MaxRuns
    /\ \E env \in Environments(series, fs) :
          LET run == PerformSplitActions(series, fs, env)
          IN  /\ last' = run @@ [before |-> fs]
              /\ fs' = run.after
    /\ prev' = last
    /\ nruns' = nruns + 1
    /\ UNCHANGED <<series, mvars, svars, bvars, rvars, pvars, avars, tvars, wvars>>

(***************************************************************************)
(* Season resolution (anup/.../split_series/mod.rs)                        *)
(***************************************************************************)
Kinds == {"Season", "Movie"}

BaseId == 0
MovieId == MaxChain + 1

NoSequels == [k \in {} |-> None]

SeriesTitle(id) == <<"S">> \o ToDecimal(id)

\* the remote's SeriesInfo of a series id: the base series has the sequels
\* the catalogue gives it, each season of the chain has the next one as its
\* Season sequel, the movie has none
Info(id) ==
    [id |-> id,
     title |-> SeriesTitle(id),
     episodes |-> IF id = BaseId THEN remote.base
                  ELSE IF id = MovieId THEN remote.movie
                  ELSE remote.chain[id],
     sequels |->
        IF id = BaseId
        THEN [k \in {x \in Kinds : \/ x = "Season" /\ remote.chain # <<>>
                                   \/ x = "Movie" /\ remote.hasMovie} |->
                 [id |-> IF k = "Season" THEN 1 ELSE MovieId, kind |-> k]]
        ELSE IF id # MovieId /\ id < Len(remote.chain)
        THEN [k \in {"Season"} |-> [id |-> id + 1, kind |-> k]]
        ELSE NoSequels]

NoSequel == [some |-> FALSE]

\* SeriesInfo::sequel_by_kind
SequelByKind(info, kind) ==
    IF kind \in DOMAIN info.sequels
    THEN [some |-> TRUE, sequel |-> info.sequels[kind]] ELSE NoSequel

\* SeriesInfo::direct_sequel: the sequel of kind Season
DirectSequel(info) == SequelByKind(info, "Season")

Resolved(info, kind, episodes, off) ==
    LET rs == ResolvedSeriesNew(info, <<"b">>, episodes, off)
    IN  [tag |-> "Resolved", kind |-> kind, id |-> info.id, offset |-> off,
         actions |-> rs.actions]

Failed(kind) ==
    [tag |-> "Failed", kind |-> kind, id |-> 0, offset |-> 0, actions |-> <<>>]

Lookup(id, ok) == [ev |-> "lookup", id |-> id, ok |-> ok]
Sleep == [ev |-> "sleep", id |-> 0, ok |-> TRUE]

NoWalk == [active |-> FALSE, info |-> 0, episode_offset |-> 0,
           highest_episode |-> 0, failures |-> 0]

\* ---- the resolver's inputs ----
\* the episode counts of the seasons of a chain: each has one episode or
\* MaxEps
RECURSIVE Chains(_)
Chains(n) ==
    IF n = 0 THEN {<<>>}
    ELSE Chains(n - 1) \cup
         {Append(c, e) : c \in {x \in Chains(n - 1) : Len(x) = n - 1},
                         e \in {1, MaxEps}}

Catalogues ==
    {[base |-> b, chain |-> c, hasMovie |-> m > 0, movie |-> m] :
        b \in 1..MaxEps, c \in Chains(MaxChain), m \in 0..MaxMovieEps}

LocalEpisodes(nums) ==
    [i \in 1..Cardinality(nums) |->
        [number |-> Ascending(nums)[i],
         filename |-> FileName(Ascending(nums)[i], [pre |-> <<>>, suf |-> Mkv])]]

\* the local categories: the season files carry any numbers up to
\* MaxLocal, the movie files the numbers 1..k
LocalInputs ==
    {[k \in {x \in Kinds : \/ x = "Season" /\ sn # {}
                           \/ x = "Movie" /\ mv > 0} |->
         IF k = "Season" THEN LocalEpisodes(sn) ELSE LocalEpisodes(1..mv)] :
       sn \in SUBSET (1..MaxLocal), mv \in 0..MaxMovieLocal}

Orders(cats) ==
    {o \in UNION {[1..Cardinality(cats) -> cats]} :
        \A i, j \in 1..Len(o) : i # j => o[i] # o[j]}

NotReturned == [done |-> FALSE]

ResolverIdle ==
    /\ remote = None /\ local = None /\ order = <<>> /\ pc = "idle" /\ cat = 0
    /\ walk = NoWalk /\ results = <<>> /\ ret = NotReturned /\ events = <<>>

ResolverInit ==
    /\ remote \in Catalogues
    /\ local \in LocalInputs
    /\ order \in Orders(DOMAIN local)
    /\ pc = "parse" /\ cat = 0
    /\ walk = NoWalk /\ results = <<>> /\ ret = NotReturned /\ events = <<>>

Return(ok, err) == [done |-> TRUE, ok |-> ok, err |-> err]

\* lines 197-200: CategorizedEpisodes::parse of the series' directory
ParseLocal ==
    /\ pc = "parse"
    /\ \E scanned \in BOOLEAN :
          IF scanned
          THEN pc' = "base" /\ ret' = ret
          ELSE pc' = "done" /\ ret' = Return(FALSE, "scan")
    /\ UNCHANGED <<remote, local, order, cat, walk, results, events>>
    /\ UNCHANGED <<mvars, svars, bvars, xvars, pvars, avars, tvars, wvars>>

\* the lookup of the base series with "no sequels" reported as an error
LookupBaseEmptyIsError ==
    /\ pc = "base"
    /\ \E ok \in BOOLEAN :
          /\ events' = Append(events, Lookup(BaseId, ok))
          /\ IF ~ok
             THEN pc' = "done" /\ ret' = Return(FALSE, "base lookup") /\ cat' = cat
             ELSE IF DOMAIN Info(BaseId).sequels = {}
             THEN pc' = "done" /\ ret' = Return(FALSE, "no sequels") /\ cat' = cat
             ELSE pc' = "loop" /\ ret' = ret /\ cat' = 1
    /\ UNCHANGED <<remote, local, order, walk, results>>
    /\ UNCHANGED <<mvars, svars, bvars, xvars, pvars, avars, tvars, wvars>>

\* lines 202-208: the lookup of the base series
LookupBase ==
    /\ pc = "base"
    /\ \E ok \in BOOLEAN :
          /\ events' = Append(events, Lookup(BaseId, ok))
          /\ IF ~ok
             THEN pc' = "done" /\ ret' = Return(FALSE, "base lookup") /\ cat' = cat
             ELSE IF DOMAIN Info(BaseId).sequels = {}
             THEN pc' = "done" /\ ret' = Return(TRUE, None) /\ cat' = cat
             ELSE pc' = "loop" /\ ret' = ret /\ cat' = 1
    /\ UNCHANGED <<remote, local, order, walk, results>>
    /\ UNCHANGED <<mvars, svars, bvars, xvars, pvars, avars, tvars, wvars>>

\* the head of the loop with a category that has no sequel of its kind
\* recorded as Failed instead of passed over
NextCategoryFailsUnmatched ==
    /\ pc = "loop"
    /\ IF cat > Len(order)
       THEN /\ pc' = "done" /\ ret' = Return(TRUE, None)
            /\ UNCHANGED <<cat, walk, results>>
       ELSE LET sequel == SequelByKind(Info(BaseId), order[cat])
                eps == local[order[cat]]
            IN  IF ~sequel.some
                THEN /\ pc' = "loop" /\ cat' = cat + 1
                     /\ results' = Append(results, Failed(order[cat]))
                     /\ UNCHANGED <<walk, ret>>
                ELSE IF sequel.sequel.kind = "Season"
                THEN IF Info(BaseId).episodes > HighestEpisodeNumber(eps)
                     THEN /\ pc' = "loop" /\ cat' = cat + 1
                          /\ UNCHANGED <<walk, ret, results>>
                     ELSE /\ pc' = "walk"
                          /\ walk' = [active |-> TRUE, info |-> BaseId,
                                      episode_offset |-> Info(BaseId).episodes,
                                      highest_episode |-> HighestEpisodeNumber(eps),
                                      failures |-> 0]
                          /\ UNCHANGED <<cat, ret, results>>
                ELSE pc' = "sequel" /\ UNCHANGED <<cat, walk, ret, results>>
    /\ UNCHANGED <<remote, local, order, events>>
    /\ UNCHANGED <<mvars, svars, bvars, xvars, pvars, avars, tvars, wvars>>

\* lines 210-230 and 245, 256-264: the head of the loop over the local
\* categories, up to the next remote call
NextCategory ==
    /\ pc = "loop"
    /\ IF cat > Len(order)
       THEN /\ pc' = "done" /\ ret' = Return(TRUE, None)
            /\ UNCHANGED <<cat, walk>>
       ELSE LET sequel == SequelByKind(Info(BaseId), order[cat])
                eps == local[order[cat]]
            IN  IF ~sequel.some
                THEN pc' = "loop" /\ cat' = cat + 1 /\ UNCHANGED <<walk, ret>>
                ELSE IF sequel.sequel.kind = "Season"
                THEN IF Info(BaseId).episodes > HighestEpisodeNumber(eps)
                     THEN pc' = "loop" /\ cat' = cat + 1 /\ UNCHANGED <<walk, ret>>
                     ELSE /\ pc' = "walk"
                          /\ walk' = [active |-> TRUE, info |-> BaseId,
                                      episode_offset |-> Info(BaseId).episodes,
                                      highest_episode |-> HighestEpisodeNumber(eps),
                                      failures |-> 0]
                          /\ UNCHANGED <<cat, ret>>
                ELSE pc' = "sequel" /\ UNCHANGED <<cat, walk, ret>>
    /\ UNCHANGED <<remote, local, order, results, events>>
    /\ UNCHANGED <<mvars, svars, bvars, xvars, pvars, avars, tvars, wvars>>

\* the lookup of a sequel that is no season, with a failure handed on to the
\* caller as the base lookup's is
LookupSequelPropagating ==
    /\ pc = "sequel"
    /\ LET sequel == SequelByKind(Info(BaseId), order[cat]).sequel
       IN  \E ok \in BOOLEAN :
              /\ events' = events \o <<Sleep, Lookup(sequel.id, ok)>>
              /\ IF ok
                 THEN /\ results' = Append(results,
                            Resolved(Info(sequel.id), sequel.kind, local[order[cat]], 0))
                      /\ pc' = "loop" /\ cat' = cat + 1 /\ ret' = ret
                 ELSE /\ results' = results
                      /\ pc' = "done" /\ cat' = cat
                      /\ ret' = Return(FALSE, "sequel lookup")
    /\ UNCHANGED <<remote, local, order, walk>>
    /\ UNCHANGED <<mvars, svars, bvars, xvars, pvars, avars, tvars, wvars>>

\* lines 230-242: the sleep and the lookup of a sequel that is no season
LookupSequel ==
    /\ pc = "sequel"
    /\ LET sequel == SequelByKind(Info(BaseId), order[cat]).sequel
       IN  \E ok \in BOOLEAN :
              /\ events' = events \o <<Sleep, Lookup(sequel.id, ok)>>
              /\ results' = Append(results,
                    IF ok THEN Resolved(Info(sequel.id), sequel.kind,
                                        local[order[cat]], 0)
                    ELSE Failed(sequel.kind))
    /\ pc' = "loop"
    /\ cat' = cat + 1
    /\ UNCHANGED <<remote, local, order, walk, ret>>
    /\ UNCHANGED <<mvars, svars, bvars, xvars, pvars, avars, tvars, wvars>>

\* the outcome of one pass of the while loop (lines 266-292) whose stop
\* test lets the walk go on when the offset equals the highest local number
\* plus one
WalkStepLateStop(w, eps, ok) ==
    LET sequel == DirectSequel(Info(w.info)).sequel
        info == Info(sequel.id)
        off == w.episode_offset + info.episodes
    IN  IF ~ok
        THEN [walk |-> [w EXCEPT !.failures = @ + 1],
              push |-> <<Failed(sequel.kind)>>, again |-> TRUE, sleep |-> <<>>]
        ELSE [walk |-> [w EXCEPT !.info = info.id, !.episode_offset = off],
              push |-> <<Resolved(info, sequel.kind, eps, w.episode_offset)>>,
              again |-> ~(off > w.highest_episode + 1 \/ ~DirectSequel(info).some),
              sleep |-> IF off > w.highest_episode + 1 \/ ~DirectSequel(info).some
                        THEN <<>> ELSE <<Sleep>>]

\* one pass of the while loop in which a failed lookup records nothing
WalkStepFailureDropped(w, eps, ok) ==
    LET sequel == DirectSequel(Info(w.info)).sequel
        info == Info(sequel.id)
        off == w.episode_offset + info.episodes
    IN  IF ~ok
        THEN [walk |-> [w EXCEPT !.failures = @ + 1],
              push |-> <<>>, again |-> TRUE, sleep |-> <<>>]
        ELSE [walk |-> [w EXCEPT !.info = info.id, !.episode_offset = off],
              push |-> <<Resolved(info, sequel.kind, eps, w.episode_offset)>>,
              again |-> ~(off > w.highest_episode \/ ~DirectSequel(info).some),
              sleep |-> IF off > w.highest_episode \/ ~DirectSequel(info).some
                        THEN <<>> ELSE <<Sleep>>]

\* one pass of the while loop in which the running offset is not moved on
WalkStepOffsetKept(w, eps, ok) ==
    LET sequel == DirectSequel(Info(w.info)).sequel
        info == Info(sequel.id)
        off == w.episode_offset
    IN  IF ~ok
        THEN [walk |-> [w EXCEPT !.failures = @ + 1],
              push |-> <<Failed(sequel.kind)>>, again |-> TRUE, sleep |-> <<>>]
        ELSE [walk |-> [w EXCEPT !.info = info.id, !.episode_offset = off],
              push |-> <<Resolved(info, sequel.kind, eps, w.episode_offset)>>,
              again |-> ~(off > w.highest_episode \/ ~DirectSequel(info).some),
              sleep |-> IF off > w.highest_episode \/ ~DirectSequel(info).some
                        THEN <<>> ELSE <<Sleep>>]

\* one pass of the while loop in which the season is built from offset
\* zero, as the sequels that are no seasons are
WalkStepBuiltFromZero(w, eps, ok) ==
    LET sequel == DirectSequel(Info(w.info)).sequel
        info == Info(sequel.id)
        off == w.episode_offset + info.episodes
    IN  IF ~ok
        THEN [walk |-> [w EXCEPT !.failures = @ + 1],
              push |-> <<Failed(sequel.kind)>>, again |-> TRUE, sleep |-> <<>>]
        ELSE [walk |-> [w EXCEPT !.info = info.id, !.episode_offset = off],
              push |-> <<Resolved(info, sequel.kind, eps, 0)>>,
              again |-> ~(off > w.highest_episode \/ ~DirectSequel(info).some),
              sleep |-> IF off > w.highest_episode \/ ~DirectSequel(info).some
                        THEN <<>> ELSE <<Sleep>>]

\* the outcome of one pass of the while loop (lines 266-292) for the walk
\* state w and a lookup that succeeds or not: the new walk state, what is
\* pushed to the results, whether the loop is entered again, and the sleep
\* at the end of the pass
WalkStep(w, eps, ok) ==
    LET sequel == DirectSequel(Info(w.info)).sequel
        info == Info(sequel.id)
        off == w.episode_offset + info.episodes
    IN  IF ~ok
        THEN [walk |-> [w EXCEPT !.failures = @ + 1],
              push |-> <<Failed(sequel.kind)>>, again |-> TRUE, sleep |-> <<>>]
        ELSE [walk |-> [w EXCEPT !.info = info.id, !.episode_offset = off],
              push |-> <<Resolved(info, sequel.kind, eps, w.episode_offset)>>,
              again |-> ~(off > w.highest_episode \/ ~DirectSequel(info).some),
              sleep |-> IF off > w.highest_episode \/ ~DirectSequel(info).some
                        THEN <<>> ELSE <<Sleep>>]

\* lines 266-292: one pass of the while loop of resolve_merged_season; a
\* walk is followed through MaxFailures failed lookups
WalkLookup ==
    /\ pc = "walk"
    /\ IF ~DirectSequel(Info(walk.info)).some
       THEN /\ pc' = "loop" /\ cat' = cat + 1
            /\ walk' = [walk EXCEPT !.active = FALSE]
            /\ UNCHANGED <<results, events>>
       ELSE \E ok \in BOOLEAN :
              /\ ok \/ walk.failures < MaxFailures
              /\ LET step == WalkStep(walk, local[order[cat]], ok)
                     sequel == DirectSequel(Info(walk.info)).sequel
                 IN  /\ events' = events \o <<Lookup(sequel.id, ok)>> \o step.sleep
                     /\ results' = results \o step.push
                     /\ IF step.again
                        THEN pc' = "walk" /\ cat' = cat /\ walk' = step.walk
                        ELSE /\ pc' = "loop" /\ cat' = cat + 1
                             /\ walk' = [step.walk EXCEPT !.active = FALSE]
    /\ UNCHANGED <<remote, local, order, ret>>
    /\ UNCHANGED <<mvars, svars, bvars, xvars, pvars, avars, tvars, wvars>>

(***************************************************************************)
(* Split series panel: the spawned task and the panel state                *)
(***************************************************************************)
NoPanel == [some |-> FALSE]

\* SplitPanel::new(merged_series): the panel over the outcomes of resolve
SplitPanelNew(merged_series) == [some |-> TRUE, merged |-> merged_series]

\* AddPanel::new(info, path)
AddPanelNew == [some |-> TRUE]

\* enum PanelState
Loading == [tag |-> "Loading", split |-> NoPanel, add |-> NoPanel]
Splitting(split_panel) ==
    [tag |-> "Splitting", split |-> split_panel, add |-> NoPanel]
AddingSeries(add_panel, split_panel) ==
    [tag |-> "AddingSeries", split |-> split_panel, add |-> add_panel]

\* a state whose tag is stored and whose panel is not
HalfWritten(st) ==
    \/ st.tag = "Splitting" /\ ~st.split.some
    \/ st.tag = "AddingSeries" /\ (~st.split.some \/ ~st.add.some)

\* state.series.selected(): a complete or partial series, one that failed
\* to load, or no series
Selections == {"Complete", "Partial", "None", "Nothing"}

\* what MergedSeries::resolve gives the task: Ok with so many outcomes, or Err
ResolveResults ==
    {[ok |-> TRUE, merged |-> n] : n \in 0..MaxMerged}
        \cup {[ok |-> FALSE, merged |-> 0]}

\* SplitResult / SplitPanelResult of the inner panels' process_key
KeyResults == {"Ok", "Reset", "AddSeries", "Err"}

Free == "free"

TaskStart == [pc |-> "start", calls |-> 0, merged |-> 0, outcome |-> None]

NotDrawn == [tag |-> None, split |-> NoPanel, add |-> NoPanel]

\* no call of process_key yet
NoKey == [some |-> FALSE, before |-> None, ret |-> None]

PanelIdle ==
    /\ panel_state = None /\ split_task = None /\ locks = None
    /\ shared = None /\ drawn = None /\ ui = None /\ key_result = None

\* SplitSeriesPanel::new: the state is Loading and the task is spawned
PanelInit ==
    /\ panel_state = Loading
    /\ split_task = TaskStart
    /\ locks = [state |-> Free, panel |-> Free]
    /\ shared \in [selected : Selections, logged_in : BOOLEAN,
                    log : {<<>>}, dirty : {FALSE}]
    /\ drawn = NotDrawn
    /\ ui = [at |-> "loop", holds |-> FALSE]
    /\ key_result = NoKey

\* a return of the task that leaves its guards alive
TaskReturnKeepingGuards(outcome) ==
    /\ split_task' = [split_task EXCEPT !.pc = "done", !.outcome = outcome]
    /\ locks' = locks

\* the task returns: its guards are dropped and the locks it holds are free
TaskReturn(outcome) ==
    /\ split_task' = [split_task EXCEPT !.pc = "done", !.outcome = outcome]
    /\ locks' = [l \in DOMAIN locks |-> IF locks[l] = "task" THEN Free ELSE locks[l]]

\* line 61: state.lock()
TaskLockState ==
    /\ split_task.pc = "start"
    /\ locks.state = Free
    /\ locks' = [locks EXCEPT !.state = "task"]
    /\ split_task' = [split_task EXCEPT !.pc = "select"]
    /\ UNCHANGED <<panel_state, shared, drawn, ui, key_result>>
    /\ UNCHANGED <<mvars, svars, bvars, xvars, rvars, avars, tvars, wvars>>

\* lines 63-74: the selected series
TaskSelect ==
    /\ split_task.pc = "select"
    /\ IF shared.selected \in {"Complete", "Partial"}
       THEN /\ split_task' = [split_task EXCEPT !.pc = "login"]
            /\ UNCHANGED <<locks, shared>>
       ELSE /\ shared' = [shared EXCEPT !.log = Append(@, "series with errors")]
            /\ TaskReturn("series with errors")
    /\ UNCHANGED <<panel_state, drawn, ui, key_result>>
    /\ UNCHANGED <<mvars, svars, bvars, xvars, rvars, avars, tvars, wvars>>

\* lines 76-79: state.remote.get_logged_in()
TaskLogin ==
    /\ split_task.pc = "login"
    /\ IF shared.logged_in
       THEN split_task' = [split_task EXCEPT !.pc = "resolve"] /\ locks' = locks
       ELSE TaskReturn("not logged in")
    /\ UNCHANGED <<panel_state, shared, drawn, ui, key_result>>
    /\ UNCHANGED <<mvars, svars, bvars, xvars, rvars, avars, tvars, wvars>>

\* line 81: inside MergedSeries::resolve, a remote lookup or a sleep
TaskRemoteCall ==
    /\ split_task.pc = "resolve"
    /\ split_task.calls < MaxCalls
    /\ split_task' = [split_task EXCEPT !.calls = @ + 1]
    /\ UNCHANGED <<panel_state, locks, shared, drawn, ui, key_result>>
    /\ UNCHANGED <<mvars, svars, bvars, xvars, rvars, avars, tvars, wvars>>

\* lines 81-87: MergedSeries::resolve returns
TaskResolve ==
    /\ split_task.pc = "resolve"
    /\ \E r \in ResolveResults :
          IF r.ok
          THEN /\ split_task' = [split_task EXCEPT !.pc = "publish",
                                                   !.merged = r.merged]
               /\ UNCHANGED <<locks, shared>>
          ELSE /\ shared' = [shared EXCEPT !.log = Append(@, "resolve error")]
               /\ TaskReturn("resolve error")
    /\ UNCHANGED <<panel_state, drawn, ui, key_result>>
    /\ UNCHANGED <<mvars, svars, bvars, xvars, rvars, avars, tvars, wvars>>

\* line 89: panel_state.lock()
TaskLockPanel ==
    /\ split_task.pc = "publish"
    /\ locks.panel = Free
    /\ locks' = [locks EXCEPT !.panel = "task"]
    /\ split_task' = [split_task EXCEPT !.pc = "assign"]
    /\ UNCHANGED <<panel_state, shared, drawn, ui, key_result>>
    /\ UNCHANGED <<mvars, svars, bvars, xvars, rvars, avars, tvars, wvars>>

\* line 91: the store of the new state begins: the store of an enum value is
\* not one memory operation, the tag is in place before the panel is
TaskAssignTag ==
    /\ split_task.pc = "assign"
    /\ panel_state' = [panel_state EXCEPT !.tag = "Splitting"]
    /\ split_task' = [split_task EXCEPT !.pc = "assigning"]
    /\ UNCHANGED <<locks, shared, drawn, ui, key_result>>
    /\ UNCHANGED <<mvars, svars, bvars, xvars, rvars, avars, tvars, wvars>>

\* line 91: the store of the new state is complete
TaskAssign ==
    /\ split_task.pc = "assigning"
    /\ panel_state' = Splitting(SplitPanelNew(split_task.merged))
    /\ split_task' = [split_task EXCEPT !.pc = "dirty"]
    /\ UNCHANGED <<locks, shared, drawn, ui, key_result>>
    /\ UNCHANGED <<mvars, svars, bvars, xvars, rvars, avars, tvars, wvars>>

\* lines 92-93: state.mark_dirty() and the end of the task
TaskMarkDirty ==
    /\ split_task.pc = "dirty"
    /\ shared' = [shared EXCEPT !.dirty = TRUE]
    /\ TaskReturn("published")
    /\ UNCHANGED <<panel_state, drawn, ui, key_result>>
    /\ UNCHANGED <<mvars, svars, bvars, xvars, rvars, avars, tvars, wvars>>

\* the UI thread locks the shared UI state before it handles an event
UiLockState ==
    /\ ui.at = "loop" /\ ~ui.holds
    /\ locks.state = Free
    /\ locks' = [locks EXCEPT !.state = "ui"]
    /\ ui' = [ui EXCEPT !.holds = TRUE]
    /\ UNCHANGED <<panel_state, split_task, shared, drawn, key_result>>
    /\ UNCHANGED <<mvars, svars, bvars, xvars, rvars, avars, tvars, wvars>>

\* the UI thread is done with the event and drops its guard
UiUnlockState ==
    /\ ui.at = "loop" /\ ui.holds
    /\ locks' = [locks EXCEPT !.state = Free]
    /\ ui' = [ui EXCEPT !.holds = FALSE]
    /\ UNCHANGED <<panel_state, split_task, shared, drawn, key_result>>
    /\ UNCHANGED <<mvars, svars, bvars, xvars, rvars, avars, tvars, wvars>>

\* line 114: self.state.lock() of draw
UiLockPanelDraw ==
    /\ ui.at = "loop"
    /\ locks.panel = Free
    /\ locks' = [locks EXCEPT !.panel = "ui"]
    /\ ui' = [ui EXCEPT !.at = "draw"]
    /\ UNCHANGED <<panel_state, split_task, shared, drawn, key_result>>
    /\ UNCHANGED <<mvars, svars, bvars, xvars, rvars, avars, tvars, wvars>>

\* SplitSeriesPanel::draw: the state is read under the panel's lock, which
\* is dropped at the end
UiDraw ==
    /\ ui.at = "draw"
    /\ drawn' = panel_state
    /\ locks' = [locks EXCEPT !.panel = Free]
    /\ ui' = [ui EXCEPT !.at = "loop"]
    /\ UNCHANGED <<panel_state, split_task, shared, key_result>>
    /\ UNCHANGED <<mvars, svars, bvars, xvars, rvars, avars, tvars, wvars>>

\* a match of process_key whose Reset of the add panel starts the panel over
ProcessKeyStartingOver(st, result) ==
    CASE st.tag = "Loading" -> st
      [] st.tag = "Splitting" ->
            IF result = "AddSeries" THEN AddingSeries(AddPanelNew, st.split)
            ELSE st
      [] st.tag = "AddingSeries" ->
            IF result = "Reset" THEN Loading
            ELSE IF result = "AddSeries" THEN Splitting(st.split)
            ELSE st

\* the match of process_key on the panel state, for the result the inner
\* panel's process_key gives
ProcessKey(st, result) ==
    CASE st.tag = "Loading" -> st
      [] st.tag = "Splitting" ->
            IF result = "AddSeries" THEN AddingSeries(AddPanelNew, st.split)
            ELSE st
      [] st.tag = "AddingSeries" ->
            IF result \in {"Reset", "AddSeries"} THEN Splitting(st.split)
            ELSE st

\* what process_key returns on the panel state st when the inner panel's
\* process_key gives result
ProcessKeyResult(st, result) ==
    CASE st.tag = "Loading" -> "Ok"
      [] st.tag = "Splitting" -> IF result = "AddSeries" THEN "Ok" ELSE result
      [] st.tag = "AddingSeries" -> IF result = "Reset" THEN "Ok" ELSE result

\* line 129: self.state.lock() of process_key, which is called with the
\* shared UI state (state: &mut UIState)
UiLockPanelKey ==
    /\ ui.at = "loop" /\ ui.holds
    /\ locks.panel = Free
    /\ locks' = [locks EXCEPT !.panel = "ui"]
    /\ ui' = [ui EXCEPT !.at = "key"]
    /\ UNCHANGED <<panel_state, split_task, shared, drawn, key_result>>
    /\ UNCHANGED <<mvars, svars, bvars, xvars, rvars, avars, tvars, wvars>>

\* SplitSeriesPanel::process_key, under the panel's lock, which is dropped
\* at the end
UiProcessKey ==
    /\ ui.at = "key"
    /\ \E result \in KeyResults :
          /\ panel_state' = ProcessKey(panel_state, result)
          /\ key_result' = [some |-> TRUE, before |-> panel_state.tag,
                            ret |-> ProcessKeyResult(panel_state, result)]
    /\ locks' = [locks EXCEPT !.panel = Free]
    /\ ui' = [ui EXCEPT !.at = "loop"]
    /\ UNCHANGED <<split_task, shared, drawn>>
    /\ UNCHANGED <<mvars, svars, bvars, xvars, rvars, avars, tvars, wvars>>

(* MergedSeries::split_all                                                 *)
(***************************************************************************)
\* the resolved series at place j of a batch, with n actions
BatchResolved(j, n) ==
    Resolved([id |-> j, title |-> SeriesTitle(j), episodes |-> n],
             "Season", LocalEpisodes(1..n), 0)

\* what can stand at place j of the slice handed to split_all
BatchItems(j) ==
    {Failed(k) : k \in Kinds} \cup {BatchResolved(j, n) : n \in 0..MaxBatchActions}

Batches ==
    UNION {{b \in [1..n -> UNION {BatchItems(j) : j \in 1..n}] :
               \A j \in 1..n : b[j] \in BatchItems(j)} : n \in 0..MaxBatch}

\* the directories of outcome i on the disk d
DirectoriesOf(d, i) ==
    [base |-> d.base, out |-> d.outs[i].out, entries |-> d.outs[i].entries]

\* the disk d after a run on the directories of outcome i
DiskAfter(d, i, after) ==
    [base |-> after.base,
     outs |-> [d.outs EXCEPT ![i] = [out |-> after.out, entries |-> after.entries]]]

BatchResult(ok, d, attempted, oks, failed) ==
    [done |-> TRUE, ok |-> ok, disk |-> d, attempted |-> attempted,
     oks |-> oks, failed |-> failed]

\* the loop of split_all that goes on with the next series after a failed
\* one and reports the first failure at the end
RECURSIVE SplitAllLoopKeepGoing(_, _, _, _, _, _, _)
SplitAllLoopKeepGoing(outcomes, i, d, attempted, oks, failed, envs) ==
    IF i > Len(outcomes) THEN BatchResult(failed = 0, d, attempted, oks, failed)
    ELSE IF outcomes[i].tag = "Failed"
    THEN SplitAllLoopKeepGoing(outcomes, i + 1, d, attempted, oks, failed, envs)
    ELSE LET run == PerformSplitActions(outcomes[i], DirectoriesOf(d, i), envs[i])
         IN  SplitAllLoopKeepGoing(outcomes, i + 1, DiskAfter(d, i, run.after),
                                   Append(attempted, i), Append(oks, run.ok),
                                   IF failed = 0 /\ ~run.ok THEN i ELSE failed,
                                   envs)

\* the loop of split_all (lines 296-305) from outcome i on
RECURSIVE SplitAllLoop(_, _, _, _, _, _, _)
SplitAllLoop(outcomes, i, d, attempted, oks, failed, envs) ==
    IF i > Len(outcomes) THEN BatchResult(TRUE, d, attempted, oks, 0)
    ELSE IF outcomes[i].tag = "Failed"
    THEN SplitAllLoop(outcomes, i + 1, d, attempted, oks, failed, envs)
    ELSE LET run == PerformSplitActions(outcomes[i], DirectoriesOf(d, i), envs[i])
         IN  IF ~run.ok
             THEN BatchResult(FALSE, DiskAfter(d, i, run.after),
                              Append(attempted, i), Append(oks, FALSE), i)
             ELSE SplitAllLoop(outcomes, i + 1, DiskAfter(d, i, run.after),
                               Append(attempted, i), Append(oks, TRUE), failed, envs)

\* MergedSeries::split_all(merged, config) on the disk d
SplitAll(outcomes, d, envs) == SplitAllLoop(outcomes, 1, d, <<>>, <<>>, 0, envs)

\* before the split the directory of the merged series exists and no output
\* directory does
InitialDisks(outcomes) ==
    {[base |-> TRUE,
      outs |-> [i \in 1..Len(outcomes) |-> [out |-> FALSE, entries |-> EmptyMap]]]}

\* for each outcome, whether creating its output directory fails and the
\* link that fails in its run
BatchEnvironments(outcomes) ==
    [1..Len(outcomes) -> [mkdirFail : {None, "out"},
                          failAt : 0..MaxBatchActions]]

NotSplit == [done |-> FALSE]

BatchIdle == merged = <<>> /\ disk = None /\ split_all = NotSplit

BatchInit ==
    /\ merged \in Batches
    /\ disk \in InitialDisks(merged)
    /\ split_all = NotSplit

\* a call of MergedSeries::split_all(merged, config)
CallSplitAll ==
    /\ ~split_all.done
    /\ \E envs \in BatchEnvironments(merged) :
          LET r == SplitAll(merged, disk, envs)
          IN  /\ split_all' = r @@ [before |-> disk, envs |-> envs]
              /\ disk' = r.disk
    /\ UNCHANGED merged
    /\ UNCHANGED <<mvars, svars, bvars, xvars, rvars, pvars, tvars, wvars>>

(***************************************************************************)
(* Series and SeriesEntry                                                  *)
(***************************************************************************)
\* anime::remote::Status
Statuses ==
    {"Watching", "Completed", "OnHold", "Dropped", "PlanToWatch", "Rewatching"}

\* Option<u8>: None, and Some of a score
NoScore == 0
SomeScore == 1

\* SeriesEntry: the fields of the remote's entry and needs_sync; the dates
\* of the entry are left out
SeriesEntry(watched_eps, score, status, times_rewatched, needs_sync) ==
    [watched_eps |-> watched_eps, score |-> score, status |-> status,
     times_rewatched |-> times_rewatched, needs_sync |-> needs_sync]

\* impl From<anime::remote::SeriesEntry> for SeriesEntry
FromRemoteEntry(e) ==
    SeriesEntry(e.watched_eps, e.score, e.status, e.times_rewatched, FALSE)

\* SeriesEntry::set_watched_eps
SetWatchedEps(e, watched_eps) ==
    [e EXCEPT !.watched_eps = watched_eps, !.needs_sync = TRUE]

\* SeriesEntry::set_score
SetScore(e, score) == [e EXCEPT !.score = score, !.needs_sync = TRUE]

\* SeriesEntry::set_status
SetStatus(e, status) == [e EXCEPT !.status = status, !.needs_sync = TRUE]

\* SeriesEntry::set_times_rewatched
SetTimesRewatched(e, times_rewatched) ==
    [e EXCEPT !.times_rewatched = times_rewatched, !.needs_sync = TRUE]

\* u32::saturating_sub(1)
SaturatingSub1(n) == IF n = 0 THEN 0 ELSE n - 1

\* a call on the entry e that has made no request and has not failed
Started(e) ==
    [entry |-> e, requests |-> <<>>, saves |-> 0, ok |-> TRUE,
     pulled |-> "no pull", pushed |-> FALSE]

\* Series::save: the next write of the series file
Save(s, env) ==
    [s EXCEPT !.saves = @ + 1, !.ok = env.saves[s.saves + 1]]

\* a force_sync_changes_to_remote that clears needs_sync before the request
ForceSyncChangesToRemoteClearingFirst(s, env) ==
    IF env.offline THEN Save(s, env)
    ELSE LET sent == [s EXCEPT !.requests = Append(@, "update_list_entry"),
                               !.entry.needs_sync = FALSE]
         IN  IF ~env.push_ok THEN [sent EXCEPT !.ok = FALSE]
             ELSE Save([sent EXCEPT !.pushed = TRUE], env)

\* Series::force_sync_changes_to_remote
ForceSyncChangesToRemote(s, env) ==
    IF env.offline THEN Save(s, env)
    ELSE LET sent == [s EXCEPT !.requests = Append(@, "update_list_entry")]
         IN  IF ~env.push_ok THEN [sent EXCEPT !.ok = FALSE]
             ELSE Save([sent EXCEPT !.entry.needs_sync = FALSE,
                                    !.pushed = TRUE], env)

\* Series::sync_changes_to_remote
SyncChangesToRemote(s, env) ==
    IF ~s.entry.needs_sync THEN s ELSE ForceSyncChangesToRemote(s, env)

\* Series::force_sync_changes_from_remote
ForceSyncChangesFromRemote(s, env) ==
    IF env.offline THEN s
    ELSE LET sent == [s EXCEPT !.requests = Append(@, "get_list_entry")]
         IN  IF ~env.pull.ok THEN [sent EXCEPT !.ok = FALSE, !.pulled = "error"]
             ELSE IF env.pull.some
             THEN Save([sent EXCEPT !.entry = FromRemoteEntry(env.pull.entry),
                                    !.pulled = "entry"], env)
             ELSE Save([sent EXCEPT !.entry.needs_sync = FALSE,
                                    !.pulled = "no entry"], env)

\* a sync_changes_from_remote that pulls whatever needs_sync says
SyncChangesFromRemoteAlways(s, env) == ForceSyncChangesFromRemote(s, env)

\* Series::sync_changes_from_remote
SyncChangesFromRemote(s, env) ==
    IF s.entry.needs_sync THEN s ELSE ForceSyncChangesFromRemote(s, env)

\* a match of begin_watching that counts a rewatch when it starts one from
\* Completed
BeginWatchingMatchCounting(e, eps) ==
    IF e.status = "Completed"
    THEN SetTimesRewatched(SetWatchedEps(SetStatus(e, "Rewatching"), 0),
                           e.times_rewatched + 1)
    ELSE e

\* a match of begin_watching that starts no rewatch when all episodes have
\* been watched
BeginWatchingMatchNoEdgeCase(e, eps) ==
    CASE e.status \in {"Watching", "Rewatching"} -> e
      [] e.status = "Completed" ->
            SetWatchedEps(SetStatus(e, "Rewatching"), 0)
      [] e.status \in {"PlanToWatch", "OnHold"} -> SetStatus(e, "Watching")
      [] e.status = "Dropped" -> SetWatchedEps(SetStatus(e, "Watching"), 0)

\* the match of begin_watching on the status (lines 193-218)
BeginWatchingMatch(e, eps) ==
    CASE e.status \in {"Watching", "Rewatching"} ->
            IF e.watched_eps >= eps
            THEN LET restarted == SetWatchedEps(SetStatus(e, "Rewatching"), 0)
                 IN  IF e.status = "Rewatching"
                     THEN SetTimesRewatched(restarted, restarted.times_rewatched + 1)
                     ELSE restarted
            ELSE e
      [] e.status = "Completed" ->
            SetWatchedEps(SetStatus(e, "Rewatching"), 0)
      [] e.status \in {"PlanToWatch", "OnHold"} -> SetStatus(e, "Watching")
      [] e.status = "Dropped" -> SetWatchedEps(SetStatus(e, "Watching"), 0)

\* Series::begin_watching
BeginWatching(s, eps, env) ==
    LET pulled == SyncChangesFromRemote(s, env)
    IN  IF ~pulled.ok THEN pulled
        ELSE SyncChangesToRemote(
                 [pulled EXCEPT !.entry = BeginWatchingMatch(pulled.entry, eps)], env)

\* Series::series_complete
SeriesComplete(s, env) ==
    LET counted == IF s.entry.status = "Rewatching"
                   THEN SetTimesRewatched(s.entry, s.entry.times_rewatched + 1)
                   ELSE s.entry
    IN  SyncChangesToRemote([s EXCEPT !.entry = SetStatus(counted, "Completed")], env)

\* an episode_completed that bumps the watched count past the last episode
EpisodeCompletedAlwaysBumping(s, eps, env) ==
    LET new_progress == s.entry.watched_eps + 1
        bumped == [s EXCEPT !.entry = SetWatchedEps(s.entry, new_progress)]
    IN  IF new_progress >= eps THEN SeriesComplete(bumped, env)
        ELSE SyncChangesToRemote(bumped, env)

\* Series::episode_completed
EpisodeCompleted(s, eps, env) ==
    LET new_progress == s.entry.watched_eps + 1
    IN  IF new_progress >= eps
        THEN SeriesComplete(
                 IF new_progress = eps
                 THEN [s EXCEPT !.entry = SetWatchedEps(s.entry, new_progress)]
                 ELSE s, env)
        ELSE SyncChangesToRemote(
                 [s EXCEPT !.entry = SetWatchedEps(s.entry, new_progress)], env)

\* Series::episode_regressed
EpisodeRegressed(s, env) ==
    LET regressed == SetWatchedEps(s.entry, SaturatingSub1(s.entry.watched_eps))
        new_status ==
            IF regressed.status = "Completed" /\ regressed.times_rewatched > 0
            THEN "Rewatching"
            ELSE IF regressed.status = "Rewatching" THEN "Rewatching"
            ELSE "Watching"
    IN  SyncChangesToRemote([s EXCEPT !.entry = SetStatus(regressed, new_status)], env)

\* the entry the remote's list may hold for the series besides the local one
RemoteEntries ==
    {[watched_eps |-> MaxSeriesEps, score |-> SomeScore, status |-> "Rewatching",
      times_rewatched |-> 1]}

\* the fields of the entry the remote knows (SeriesEntry::inner)
Inner(e) ==
    [watched_eps |-> e.watched_eps, score |-> e.score, status |-> e.status,
     times_rewatched |-> e.times_rewatched]

\* what remote.get_list_entry gives: an error, no entry, or an entry: the one
\* the series has locally or another
PullResults(e) ==
    {[ok |-> FALSE, some |-> FALSE, entry |-> Inner(e)],
     [ok |-> TRUE, some |-> FALSE, entry |-> Inner(e)]}
        \cup {[ok |-> TRUE, some |-> TRUE, entry |-> r] :
                 r \in RemoteEntries \cup {Inner(e)}}

\* what the remote and the disk do during one call that makes at most so
\* many pulls, pushes and writes of the series file: the result of
\* get_list_entry, whether update_list_entry succeeds, and whether the first
\* and the second write succeed
SeriesEnvironments(e, pulls, pushes, writes) ==
    [offline : {offline},
     pull : IF pulls = 0 \/ offline THEN {[ok |-> TRUE, some |-> FALSE, entry |-> Inner(e)]}
            ELSE PullResults(e),
     push_ok : IF pushes = 0 \/ offline THEN {TRUE} ELSE BOOLEAN,
     saves : {f \in [1..2 -> BOOLEAN] : \A i \in 1..2 : i > writes => f[i]}]

NoTrackerCall ==
    [op |-> None, before |-> SeriesEntry(0, NoScore, "Watching", 0, FALSE),
     met |-> SeriesEntry(0, NoScore, "Watching", 0, FALSE), matched |-> FALSE,
     requests |-> <<>>, pulled |-> "no pull", pushed |-> FALSE, ok |-> TRUE]

NoRewatch == [active |-> FALSE, base |-> 0]

TrackerIdle ==
    tracker = None /\ offline = None /\ tracker_call = None /\ rewatch = None

\* a series of the list: its entry came from the remote or was changed since
TrackerInit ==
    /\ \E n \in 1..MaxSeriesEps :
          tracker \in [episodes : {n},
                       entry : {SeriesEntry(w, NoScore, st, t, ns) :
                                   w \in 0..n, st \in Statuses,
                                   t \in 0..1, ns \in BOOLEAN}]
    /\ offline \in BOOLEAN
    /\ tracker_call = NoTrackerCall
    /\ rewatch = NoRewatch

\* the rewatch under way after the call op: begin_watching starts one when
\* its match meets Completed; it goes on through begin_watching and
\* episode_completed as long as no pull brings another entry
RewatchAfter(op, before, met, matched) ==
    IF op = "begin_watching" /\ matched /\ met.status = "Completed"
    THEN [active |-> TRUE, base |-> met.times_rewatched]
    ELSE IF /\ op \in {"begin_watching", "episode_completed"}
            /\ Inner(met) = Inner(before)
    THEN rewatch
    ELSE NoRewatch

\* the call op on the series returned s; met is the entry its body met,
\* after the pull it may start with, and matched whether it got that far
Returned(op, met, matched, s) ==
    /\ tracker' = [tracker EXCEPT !.entry = s.entry]
    /\ tracker_call' = [op |-> op, before |-> tracker.entry, met |-> met,
                        matched |-> matched, requests |-> s.requests,
                        pulled |-> s.pulled, pushed |-> s.pushed, ok |-> s.ok]
    /\ rewatch' = RewatchAfter(op, tracker.entry, met, matched)
    /\ UNCHANGED offline
    /\ UNCHANGED <<mvars, svars, bvars, xvars, rvars, pvars, avars, wvars>>

CallBeginWatching ==
    /\ tracker.entry.times_rewatched < MaxRewatched
    /\ \E env \in SeriesEnvironments(tracker.entry, 1, 1, 2) :
          Returned("begin_watching",
                   SyncChangesFromRemote(Started(tracker.entry), env).entry,
                   SyncChangesFromRemote(Started(tracker.entry), env).ok,
                   BeginWatching(Started(tracker.entry), tracker.episodes, env))

CallEpisodeCompleted ==
    /\ tracker.entry.times_rewatched < MaxRewatched
    /\ \E env \in SeriesEnvironments(tracker.entry, 0, 1, 1) :
          Returned("episode_completed", tracker.entry, TRUE,
                   EpisodeCompleted(Started(tracker.entry), tracker.episodes, env))

CallEpisodeRegressed ==
    \E env \in SeriesEnvironments(tracker.entry, 0, 1, 1) :
        Returned("episode_regressed", tracker.entry, TRUE,
                 EpisodeRegressed(Started(tracker.entry), env))

CallSeriesComplete ==
    /\ tracker.entry.times_rewatched < MaxRewatched
    /\ \E env \in SeriesEnvironments(tracker.entry, 0, 1, 1) :
          Returned("series_complete", tracker.entry, TRUE,
                   SeriesComplete(Started(tracker.entry), env))

CallSyncChangesToRemote ==
    \E env \in SeriesEnvironments(tracker.entry, 0, 1, 1) :
        Returned("sync_changes_to_remote", tracker.entry, TRUE,
                 SyncChangesToRemote(Started(tracker.entry), env))

CallForceSyncChangesToRemote ==
    \E env \in SeriesEnvironments(tracker.entry, 0, 1, 1) :
        Returned("force_sync_changes_to_remote", tracker.entry, TRUE,
                 ForceSyncChangesToRemote(Started(tracker.entry), env))

CallSyncChangesFromRemote ==
    \E env \in SeriesEnvironments(tracker.entry, 1, 0, 1) :
        Returned("sync_changes_from_remote", tracker.entry, TRUE,
                 SyncChangesFromRemote(Started(tracker.entry), env))

CallForceSyncChangesFromRemote ==
    \E env \in SeriesEnvironments(tracker.entry, 1, 0, 1) :
        Returned("force_sync_changes_from_remote", tracker.entry, TRUE,
                 ForceSyncChangesFromRemote(Started(tracker.entry), env))

\* a setter of the entry called from outside Series
CallSetScore ==
    \E score \in {NoScore, SomeScore} :
        Returned("set_score", tracker.entry, TRUE, Started(SetScore(tracker.entry, score)))

CallSetStatus ==
    \E status \in Statuses :
        Returned("set_status", tracker.entry, TRUE, Started(SetStatus(tracker.entry, status)))

(***************************************************************************)
(* UIState: keys, ticks and the watched player process                     *)
(***************************************************************************)
\* the keys process_key tells apart
Keys == {"play_next_episode", ":", "run_last_command", "Up", "Down", "other"}

\* the commands that work on the entry of the selected series; the commands
\* on the series list, the login token, the matcher and the player arguments
\* are left out
Commands == {"ProgressForwards", "ProgressBackwards", "SyncFromRemote", "SyncToRemote"}

NoCommand == "none"

\* what CommandPrompt::process_key gives: a command, Done, NotDone or an error
PromptResults ==
    {[kind |-> "Command", command |-> c] : c \in Commands}
        \cup {[kind |-> k, command |-> NoCommand] : k \in {"Done", "NotDone", "Err"}}

\* the place of the valid series in the list; the other series is invalid
ValidSeries == 0

\* UIState::is_idle
IsIdle(u) == u.watch_state = "Idle"

\* what a key or a command did: the new UIState, the new entry of the valid
\* series, whether a player was spawned and what was returned
KeyOutcome(u, entry, spawned, ok) ==
    [ui |-> u, entry |-> entry, spawned |-> spawned, ok |-> ok]

\* UIState::start_next_series_episode; its error is logged by the caller
StartNextSeriesEpisode(u, entry, eps, env) ==
    IF u.selected # ValidSeries THEN KeyOutcome(u, entry, FALSE, TRUE)
    ELSE LET began == BeginWatching(Started(entry), eps, env.remote)
             next_ep == began.entry.watched_eps + 1
             spawned == /\ began.ok
                        /\ next_ep # 0 /\ next_ep <= eps /\ env.file
                        /\ env.spawn
         IN  KeyOutcome(IF spawned THEN [u EXCEPT !.watch_state = "Watching"] ELSE u,
                        began.entry, spawned, TRUE)

\* UIState::process_command for the commands on the entry; their errors are
\* logged
ProcessCommand(u, entry, eps, command, env) ==
    IF u.selected # ValidSeries THEN KeyOutcome(u, entry, FALSE, TRUE)
    ELSE LET s == Started(entry)
             done ==
                CASE command = "ProgressForwards" -> EpisodeCompleted(s, eps, env.remote)
                  [] command = "ProgressBackwards" -> EpisodeRegressed(s, env.remote)
                  [] command = "SyncFromRemote" -> ForceSyncChangesFromRemote(s, env.remote)
                  [] command = "SyncToRemote" -> ForceSyncChangesToRemote(s, env.remote)
         IN  KeyOutcome(u, done.entry, FALSE, TRUE)

\* UIState::process_input_dialog_key
ProcessInputDialogKey(u, entry, eps, env) ==
    CASE env.prompt.kind = "Command" ->
            ProcessCommand([u EXCEPT !.status_bar_state = "Log",
                                     !.last_used_command = env.prompt.command],
                           entry, eps, env.prompt.command, env)
      [] env.prompt.kind = "Done" ->
            KeyOutcome([u EXCEPT !.status_bar_state = "Log"], entry, FALSE, TRUE)
      [] env.prompt.kind = "NotDone" -> KeyOutcome(u, entry, FALSE, TRUE)
      [] env.prompt.kind = "Err" ->
            KeyOutcome([u EXCEPT !.status_bar_state = "Log"], entry, FALSE, FALSE)

\* a process_key that does not look at the watch state
UIStateProcessKeyWhileWatching(u, entry, eps, key, env) ==
    IF u.status_bar_state = "CommandPrompt"
    THEN ProcessInputDialogKey(u, entry, eps, env)
    ELSE CASE key = "play_next_episode" -> StartNextSeriesEpisode(u, entry, eps, env)
           [] key = ":" ->
                KeyOutcome([u EXCEPT !.status_bar_state = "CommandPrompt"],
                           entry, FALSE, TRUE)
           [] key = "run_last_command" ->
                IF u.last_used_command = NoCommand THEN KeyOutcome(u, entry, FALSE, TRUE)
                ELSE ProcessCommand(u, entry, eps, u.last_used_command, env)
           [] key = "Up" ->
                KeyOutcome([u EXCEPT !.selected = SaturatingSub1(@)], entry, FALSE, TRUE)
           [] key = "Down" ->
                KeyOutcome([u EXCEPT !.selected = IF @ < 1 THEN @ + 1 ELSE @],
                           entry, FALSE, TRUE)
           [] OTHER -> KeyOutcome(u, entry, FALSE, TRUE)

\* UIState::process_key
UIStateProcessKey(u, entry, eps, key, env) ==
    IF ~IsIdle(u) THEN KeyOutcome(u, entry, FALSE, TRUE)
    ELSE IF u.status_bar_state = "CommandPrompt"
    THEN ProcessInputDialogKey(u, entry, eps, env)
    ELSE CASE key = "play_next_episode" -> StartNextSeriesEpisode(u, entry, eps, env)
           [] key = ":" ->
                KeyOutcome([u EXCEPT !.status_bar_state = "CommandPrompt"],
                           entry, FALSE, TRUE)
           [] key = "run_last_command" ->
                IF u.last_used_command = NoCommand THEN KeyOutcome(u, entry, FALSE, TRUE)
                ELSE ProcessCommand(u, entry, eps, u.last_used_command, env)
           [] key = "Up" ->
                KeyOutcome([u EXCEPT !.selected = SaturatingSub1(@)], entry, FALSE, TRUE)
           [] key = "Down" ->
                KeyOutcome([u EXCEPT !.selected = IF @ < 1 THEN @ + 1 ELSE @],
                           entry, FALSE, TRUE)
           [] OTHER -> KeyOutcome(u, entry, FALSE, TRUE)

\* what a tick did: the new UIState and entry, what try_wait showed, whether
\* episode_completed was called, and what was returned
TickOutcome(u, entry, observed, completed, ok) ==
    [ui |-> u, entry |-> entry, observed |-> observed, completed |-> completed,
     ok |-> ok]

\* a process_tick that stays in Watching when the player did not exit
\* properly
UIStateProcessTickKeepingFailed(u, entry, eps, process, elapsed, env) ==
    IF IsIdle(u) THEN TickOutcome(u, entry, "idle", FALSE, TRUE)
    ELSE IF env.wait_err THEN TickOutcome(u, entry, "error", FALSE, FALSE)
    ELSE IF process = "running" THEN TickOutcome(u, entry, "running", FALSE, TRUE)
    ELSE IF process = "failure" THEN TickOutcome(u, entry, process, FALSE, TRUE)
    ELSE LET idle == [u EXCEPT !.watch_state = "Idle"]
         IN  IF elapsed
             THEN TickOutcome(idle,
                              EpisodeCompleted(Started(entry), eps, env.remote).entry,
                              process, TRUE, TRUE)
             ELSE TickOutcome(idle, entry, process, FALSE, TRUE)

\* UIState::process_tick; process is the state of the child of Watching and
\* elapsed whether Utc::now() >= progress_time
UIStateProcessTick(u, entry, eps, process, elapsed, env) ==
    IF IsIdle(u) THEN TickOutcome(u, entry, "idle", FALSE, TRUE)
    ELSE IF env.wait_err THEN TickOutcome(u, entry, "error", FALSE, FALSE)
    ELSE IF process = "running" THEN TickOutcome(u, entry, "running", FALSE, TRUE)
    ELSE LET idle == [u EXCEPT !.watch_state = "Idle"]
         IN  IF u.selected # ValidSeries
             THEN TickOutcome(idle, entry, process, FALSE, TRUE)
             ELSE IF process # "success"
             THEN TickOutcome(idle, entry, process, FALSE, TRUE)
             ELSE IF elapsed
             THEN TickOutcome(idle,
                              EpisodeCompleted(Started(entry), eps, env.remote).entry,
                              process, TRUE, TRUE)
             ELSE TickOutcome(idle, entry, process, FALSE, TRUE)

\* what the outside does during a key or a tick that makes at most so many
\* pulls and pushes: the remote, the prompt's answer to the key, whether the
\* episode's file is there, whether the player starts, and whether try_wait
\* fails
WatchEnvironments(entry, pulls, pushes, prompts, playing, waiting) ==
    [remote : SeriesEnvironments(entry, pulls, pushes, 0),
     prompt : prompts,
     file : IF playing THEN BOOLEAN ELSE {TRUE},
     spawn : IF playing THEN BOOLEAN ELSE {TRUE},
     wait_err : IF waiting THEN BOOLEAN ELSE {FALSE}]

NoPrompt == [kind |-> "NotDone", command |-> NoCommand]

NoEvent ==
    [turn |-> 0, kind |-> "none", observed |-> "none", completed |-> FALSE, ok |-> TRUE]

WatchIdle ==
    /\ ui_state = None /\ child = None /\ players = None /\ time_up = None
    /\ watch_log = None /\ ui_event = None

\* init_ui_state: the watch state is Idle; the list holds a valid series,
\* selected, and an invalid one
WatchInit ==
    /\ ui_state = [watch_state |-> "Idle", selected |-> ValidSeries,
                   status_bar_state |-> "Log", last_used_command |-> NoCommand]
    /\ child = "none"
    /\ players = 0
    /\ time_up = FALSE
    /\ watch_log = [started |-> 0, exited |-> 0, handled |-> 0, completed |-> 0]
    /\ ui_event = NoEvent
    /\ tracker \in [episodes : {MaxSeriesEps},
                    entry : {SeriesEntry(w, NoScore, st, 0, FALSE) :
                                w \in 0..MaxSeriesEps,
                                st \in {"Watching", "Completed", "PlanToWatch"}}]
    /\ offline \in BOOLEAN
    /\ tracker_call = None
    /\ rewatch = None

\* Event::Input(key): process_key; a key typed at the prompt is read by the
\* prompt alone
UiKey ==
    /\ watch_log.started < MaxPlays
    /\ tracker.entry.times_rewatched < MaxRewatched
    /\ LET prompting == ui_state.status_bar_state = "CommandPrompt" IN
       \E key \in IF prompting THEN {"other"} ELSE Keys :
       \E prompt \in IF prompting THEN PromptResults ELSE {NoPrompt} :
          LET playing == IsIdle(ui_state) /\ key = "play_next_episode"
              command == IF ~IsIdle(ui_state) THEN NoCommand
                         ELSE IF prompting THEN prompt.command
                         ELSE IF key = "run_last_command"
                         THEN ui_state.last_used_command
                         ELSE NoCommand
              pulls == IF playing \/ command = "SyncFromRemote" THEN 1 ELSE 0
              pushes == IF playing \/ command \in Commands \ {"SyncFromRemote"}
                        THEN 1 ELSE 0
          IN
          \E env \in WatchEnvironments(tracker.entry, pulls, pushes, {prompt},
                                       playing, FALSE) :
             LET r == UIStateProcessKey(ui_state, tracker.entry, tracker.episodes,
                                        key, env)
             IN  /\ ui_state' = r.ui
                 /\ tracker' = [tracker EXCEPT !.entry = r.entry]
                 /\ child' = IF r.spawned THEN "running" ELSE child
                 /\ players' = IF r.spawned THEN players + 1 ELSE players
                 /\ time_up' = IF r.spawned THEN FALSE ELSE time_up
                 /\ watch_log' = IF r.spawned
                                 THEN [watch_log EXCEPT !.started = @ + 1]
                                 ELSE watch_log
                 /\ ui_event' = [turn |-> 1 - ui_event.turn, kind |-> "key",
                                 observed |-> "none", completed |-> FALSE,
                                 ok |-> r.ok]
    /\ UNCHANGED <<offline, tracker_call, rewatch>>
    /\ UNCHANGED <<mvars, svars, bvars, xvars, rvars, pvars, avars>>

\* Event::Tick: process_tick
UiTick ==
    /\ tracker.entry.times_rewatched < MaxRewatched
    /\ \E env \in WatchEnvironments(tracker.entry, 0,
                                    IF child = "success" /\ time_up THEN 1 ELSE 0,
                                    {NoPrompt}, FALSE,
                                    ui_state.watch_state = "Watching") :
          LET r == UIStateProcessTick(ui_state, tracker.entry, tracker.episodes,
                                      child, time_up, env)
              handled == r.observed \in {"success", "failure"}
          IN  /\ ui_state' = r.ui
              /\ tracker' = [tracker EXCEPT !.entry = r.entry]
              /\ child' = IF r.ui.watch_state = "Idle" THEN "none" ELSE child
              /\ watch_log' =
                    [watch_log EXCEPT
                        !.handled = IF handled THEN @ + 1 ELSE @,
                        !.completed = IF r.completed THEN @ + 1 ELSE @]
              /\ ui_event' = [turn |-> 1 - ui_event.turn, kind |-> "tick",
                              observed |-> r.observed, completed |-> r.completed,
                              ok |-> r.ok]
    /\ UNCHANGED <<players, time_up>>
    /\ UNCHANGED <<offline, tracker_call, rewatch>>
    /\ UNCHANGED <<mvars, svars, bvars, xvars, rvars, pvars, avars>>

\* the player process exits, properly or not
PlayerExits ==
    /\ child = "running"
    /\ child' \in {"success", "failure"}
    /\ players' = players - 1
    /\ watch_log' = [watch_log EXCEPT !.exited = @ + 1]
    /\ UNCHANGED <<ui_state, time_up, ui_event>>
    /\ UNCHANGED <<mvars, svars, bvars, xvars, rvars, pvars, avars, tvars>>

\* the time that must be watched has passed
TimePasses ==
    /\ ui_state.watch_state = "Watching"
    /\ ~time_up
    /\ time_up' = TRUE
    /\ UNCHANGED <<ui_state, child, players, watch_log, ui_event>>
    /\ UNCHANGED <<mvars, svars, bvars, xvars, rvars, pvars, avars, tvars>>

MatcherNext == CallFromPattern \/ CallWithPattern \/ CallNew

ScannerNext == Scan

BuilderNext == Build

ExecutorNext == Split

ResolverNext ==
    ParseLocal \/ LookupBase \/ NextCategory \/ LookupSequel \/ WalkLookup

InitMatcher ==
    MatcherInit /\ ScannerIdle /\ BuilderIdle /\ ExecutorIdle /\ ResolverIdle
        /\ PanelIdle /\ BatchIdle /\ TrackerIdle /\ WatchIdle

SpecMatcher == InitMatcher /\ [][MatcherNext]_vars

InitScanner ==
    ScannerInit /\ MatcherIdle /\ BuilderIdle /\ ExecutorIdle /\ ResolverIdle
        /\ PanelIdle /\ BatchIdle /\ TrackerIdle /\ WatchIdle

SpecScanner == InitScanner /\ [][ScannerNext]_vars

InitBuilder ==
    BuilderInit /\ MatcherIdle /\ ScannerIdle /\ ExecutorIdle /\ ResolverIdle
        /\ PanelIdle /\ BatchIdle /\ TrackerIdle /\ WatchIdle

SpecBuilder == InitBuilder /\ [][BuilderNext]_vars

InitExecutor ==
    ExecutorInit /\ MatcherIdle /\ ScannerIdle /\ BuilderIdle /\ ResolverIdle
        /\ PanelIdle /\ BatchIdle /\ TrackerIdle /\ WatchIdle

SpecExecutor == InitExecutor /\ [][ExecutorNext]_vars

InitResolver ==
    ResolverInit /\ MatcherIdle /\ ScannerIdle /\ BuilderIdle /\ ExecutorIdle
        /\ PanelIdle /\ BatchIdle /\ TrackerIdle /\ WatchIdle

SpecResolver == InitResolver /\ [][ResolverNext]_vars

PanelNext ==
    \/ TaskLockState \/ TaskSelect \/ TaskLogin \/ TaskRemoteCall
    \/ TaskResolve \/ TaskLockPanel \/ TaskAssignTag \/ TaskAssign
    \/ TaskMarkDirty \/ UiLockState \/ UiUnlockState \/ UiLockPanelDraw
    \/ UiDraw \/ UiLockPanelKey \/ UiProcessKey

InitPanel ==
    PanelInit /\ MatcherIdle /\ ScannerIdle /\ BuilderIdle /\ ExecutorIdle
        /\ ResolverIdle /\ BatchIdle /\ TrackerIdle /\ WatchIdle

SpecPanel == InitPanel /\ [][PanelNext]_vars

BatchNext == CallSplitAll

InitBatch ==
    BatchInit /\ MatcherIdle /\ ScannerIdle /\ BuilderIdle /\ ExecutorIdle
        /\ ResolverIdle /\ PanelIdle /\ TrackerIdle /\ WatchIdle

SpecBatch == InitBatch /\ [][BatchNext]_vars

SeriesNext ==
    \/ CallBeginWatching \/ CallEpisodeCompleted \/ CallEpisodeRegressed
    \/ CallSeriesComplete \/ CallSyncChangesToRemote
    \/ CallForceSyncChangesToRemote \/ CallSyncChangesFromRemote
    \/ CallForceSyncChangesFromRemote \/ CallSetScore \/ CallSetStatus

InitSeries ==
    TrackerInit /\ MatcherIdle /\ ScannerIdle /\ BuilderIdle /\ ExecutorIdle
        /\ ResolverIdle /\ PanelIdle /\ BatchIdle /\ WatchIdle

SpecSeries == InitSeries /\ [][SeriesNext]_vars

WatchNext == UiKey \/ UiTick \/ PlayerExits \/ TimePasses

InitWatch ==
    WatchInit /\ MatcherIdle /\ ScannerIdle /\ BuilderIdle /\ ExecutorIdle
        /\ ResolverIdle /\ PanelIdle /\ BatchIdle

SpecWatch == InitWatch /\ [][WatchNext]_vars

(***************************************************************************)
(* Properties                                                              *)
(***************************************************************************)

\* ---- split action builder ----
\* the local episodes whose number lies in the season's range
InRange ==
    {i \in 1..Len(sorted) :
        /\ sorted[i].number >= offset + 1
        /\ sorted[i].number <= offset + season.episodes}

\* the local episode the k-th action is expected to be about: the one with
\* the k-th smallest number in range
KthInRange(k) ==
    CHOOSE i \in InRange :
        Cardinality({j \in InRange : sorted[j].number < sorted[i].number}) = k - 1

\* C6: from_merged_seasons returns exactly one action for each real episode
\* number of [offset+1, offset+info.episodes] that is present locally and
\* none for the others; the action's old_name is the local file name of that
\* episode, and the actions come in ascending order of the episode number.
C6_OneActionPerLocalEpisodeInRange ==
    built.done =>
        /\ Len(built.actions) = Cardinality(InRange)
        /\ \A k \in 1..Len(built.actions) :
              built.actions[k].old_name = sorted[KthInRange(k)].filename

\* a season partly present: one local episode in range, the other number of
\* the range absent, and a local episode just below the range
C6_Witness ==
    /\ built.done
    /\ offset > 0
    /\ Len(built.actions) = 1
    /\ Len(sorted) = 2
    /\ sorted[1].number = offset
    /\ season.episodes = 2

\* what is expected after the number in a new name: the source name from its
\* last dot on, nothing if it has no dot or only a leading one
SourceSuffix(fname) ==
    IF \E i \in 2..Len(fname) : fname[i] = "."
    THEN SubSeq(fname, Max({i \in 2..Len(fname) : fname[i] = "."}), Len(fname))
    ELSE <<>>

\* the characters of the k-th new name between "<title> - " and the suffix
NumberField(k) ==
    LET new == built.actions[k].new_name
        suffix == SourceSuffix(built.actions[k].old_name)
    IN  SubSeq(new, Len(season.title) + 4, Len(new) - Len(suffix))

\* the k-th new name is "<title> - <field><suffix>" and the field is the
\* decimal notation of real number - offset, which lies in 1..=info.episodes
NameFormat(k) ==
    LET new == built.actions[k].new_name
        real == sorted[KthInRange(k)].number
        field == NumberField(k)
    IN  /\ new = season.title \o <<" ", "-", " ">> \o field
                    \o SourceSuffix(built.actions[k].old_name)
        /\ field # <<>>
        /\ \A i \in 1..Len(field) : field[i] \in Digits
        /\ DecimalValue(field) = real - offset
        /\ real - offset \in 1..season.episodes

\* C7 as stated: the index is padded to exactly two digits.
C7_ExactlyTwoDigits ==
    built.done =>
        \A k \in 1..Len(built.actions) :
            NameFormat(k) /\ Len(NumberField(k)) = 2

\* C7 (amended): every new name is "<title> - NN<ext>" with NN the season
\* index real_number - offset padded with zeros to at least two digits: two
\* digits for an index below 100, the index's own digits from 100 on.
C7_AtLeastTwoDigits ==
    built.done =>
        \A k \in 1..Len(built.actions) :
            /\ NameFormat(k)
            /\ Len(NumberField(k)) >= 2
            /\ Len(NumberField(k)) > 2 => NumberField(k)[1] # "0"
            /\ DecimalValue(NumberField(k)) < 100 => Len(NumberField(k)) = 2

\* a padded index after a positive offset, once with an extension and once
\* without
C7_Witness ==
    /\ built.done
    /\ offset > 0
    /\ Len(built.actions) = 2
    /\ SourceSuffix(built.actions[1].old_name) = <<>>
    /\ SourceSuffix(built.actions[2].old_name) # <<>>
    /\ NumberField(1) = <<"0", "1">>

\* ---- season resolution ----
IsChainLookup(e) == e.ev = "lookup" /\ e.id \in 1..Len(remote.chain)

SeasonHighest == HighestEpisodeNumber(local["Season"])

\* the episodes of the base series and of the seasons before season id
RECURSIVE EpisodesBefore(_)
EpisodesBefore(id) ==
    IF id = 1 THEN remote.base ELSE EpisodesBefore(id - 1) + remote.chain[id - 1]

ResolvedSeasons == {i \in DOMAIN results : results[i].tag = "Resolved"
                                           /\ results[i].kind = "Season"}

\* C1: when the lookup of a direct sequel fails in the chain walk, one
\* Failed(kind) is recorded and the walk stops: no remote lookup of the chain
\* follows the failed one, and the walk appends no further outcome.
C1_WalkStopsAtFailedLookup ==
    /\ \A i, j \in DOMAIN events :
          (i < j /\ IsChainLookup(events[i]) /\ ~events[i].ok) =>
              ~IsChainLookup(events[j])
    /\ \A i, j \in DOMAIN results :
          (i < j /\ results[i] = Failed("Season")) => results[j].kind # "Season"

\* C2: the running offset starts at the base series' episode count and grows
\* by the episode count of each resolved sequel; a sequel of the chain is
\* looked up and resolved only while that offset has not exceeded the
\* highest local episode number.
C2_WalkBoundedByHighestLocal ==
    /\ \A i \in DOMAIN events :
          IsChainLookup(events[i]) => EpisodesBefore(events[i].id) <= SeasonHighest
    /\ \A i \in ResolvedSeasons :
          /\ results[i].offset = EpisodesBefore(results[i].id)
          /\ results[i].offset <= SeasonHighest
    /\ walk.active =>
          /\ walk.episode_offset = EpisodesBefore(walk.info + 1)
          /\ walk.episode_offset <= walk.highest_episode
          /\ walk.highest_episode = SeasonHighest

\* the example of the specification at a smaller scale: base 1, sequels of 2
\* and 1 episodes, highest local number 2: one season resolved at offset 1,
\* the second sequel never looked up
C2_Witness ==
    /\ ret.done /\ ret.ok
    /\ remote.base = 1 /\ remote.chain = <<2, 1>>
    /\ "Season" \in DOMAIN local /\ SeasonHighest = 2
    /\ Cardinality(ResolvedSeasons) = 1
    /\ \A i \in ResolvedSeasons : results[i].offset = 1 /\ results[i].id = 1
    /\ \A i \in DOMAIN events : events[i].id # 2

Count(seq, x) == Cardinality({i \in DOMAIN seq : seq[i] = x})

\* C3: a failed lookup of a sequel that is no season records Failed(kind)
\* and the resolution goes on with the other categories, in whatever order
\* they come: if the movie lookup fails and every season lookup succeeds,
\* resolve returns Ok with one Failed(Movie) and the resolved seasons, one
\* Resolved(Season) for one season lookup.
C3_FailedMovieDoesNotStopResolution ==
    (/\ ret.done
     /\ Count(events, Lookup(MovieId, FALSE)) > 0
     /\ "Season" \in DOMAIN local
     /\ remote.chain # <<>>
     /\ remote.base <= SeasonHighest
     /\ \A i \in DOMAIN events : IsChainLookup(events[i]) => events[i].ok) =>
        /\ ret.ok
        /\ Count(results, Failed("Movie")) = 1
        /\ Cardinality(ResolvedSeasons) >= 1
        /\ Cardinality(ResolvedSeasons) =
              Cardinality({i \in DOMAIN events : IsChainLookup(events[i])})
        /\ Len(results) = 1 + Cardinality(ResolvedSeasons)

\* the movie comes first and its lookup fails, then the season is resolved
C3_Witness ==
    /\ ret.done /\ ret.ok
    /\ order = <<"Movie", "Season">>
    /\ Len(results) = 2
    /\ results[1] = Failed("Movie")
    /\ results[2].tag = "Resolved" /\ results[2].kind = "Season"

BaseSequelKinds == DOMAIN Info(BaseId).sequels

\* the category a looked-up sequel belongs to
KindOfLookup(e) == IF e.id = MovieId THEN "Movie" ELSE "Season"

SequelLookups == {i \in DOMAIN events : events[i].ev = "lookup"
                                        /\ events[i].id # BaseId}

\* C15: when the base series declares no sequels, resolve returns Ok with an
\* empty result right after the base lookup, and no other lookup is made,
\* whatever the local episodes are.
C15_NoSequelsEmptyResult ==
    BaseSequelKinds = {} =>
        /\ results = <<>>
        /\ SequelLookups = {}
        /\ Len(events) <= 1
        /\ events = <<Lookup(BaseId, TRUE)>> => ret = Return(TRUE, None)
        /\ (ret.done /\ ret.ok) => events = <<Lookup(BaseId, TRUE)>>

\* no sequels, with local seasons past the base series and local movies
C15_Witness ==
    /\ ret.done /\ ret.ok
    /\ BaseSequelKinds = {}
    /\ DOMAIN local = Kinds
    /\ SeasonHighest > remote.base
    /\ results = <<>>

\* C16: a local category for which the base series has no sequel of that
\* kind is passed over: every outcome, and every lookup of a sequel, is for
\* a kind that is both a local category and a sequel kind of the base.
C16_UnmatchedCategoriesSkipped ==
    /\ \A i \in DOMAIN results :
          results[i].kind \in DOMAIN local \cap BaseSequelKinds
    /\ \A i \in SequelLookups :
          KindOfLookup(events[i]) \in DOMAIN local \cap BaseSequelKinds
    /\ ret.done =>
          \A k \in DOMAIN local \ BaseSequelKinds :
             \A i \in DOMAIN results : results[i].kind # k

\* both categories are present locally and the base has only a movie sequel
C16_Witness ==
    /\ ret.done /\ ret.ok
    /\ DOMAIN local = Kinds
    /\ BaseSequelKinds = {"Movie"}
    /\ Len(results) = 1
    /\ results[1].kind = "Movie"

OtherResolved == {i \in DOMAIN results : results[i].tag = "Resolved"
                                         /\ results[i].kind # "Season"}

\* C17: a successful lookup of a sequel that is no season records one
\* ResolvedSeries at offset zero in which every local episode of the
\* category has an action, with its local number as the relative index.
C17_CoversAllLocalEpisodes ==
    /\ \A i \in SequelLookups :
          (events[i].id = MovieId /\ events[i].ok /\ pc # "sequel") =>
              Cardinality(OtherResolved) = 1
    /\ \A i \in OtherResolved :
          /\ results[i].offset = 0
          /\ \A e \in DOMAIN local[results[i].kind] :
                LET episode == local[results[i].kind][e]
                IN  \E a \in DOMAIN results[i].actions :
                       results[i].actions[a] =
                          SplitAction(episode.filename,
                                      NewFilename(Info(results[i].id).title,
                                                  episode.number,
                                                  episode.filename))

\* C18: after a successful local scan resolve returns an error only when
\* the base lookup fails; every failed lookup of a sequel is a Failed(kind)
\* entry of an Ok result.
C18_OnlyBaseLookupIsFatal ==
    ret.done =>
        /\ (~ret.ok /\ ret.err # "scan") =>
              /\ ret.err = "base lookup"
              /\ events = <<Lookup(BaseId, FALSE)>>
              /\ results = <<>>
        /\ (SequelLookups # {}) => ret.ok
        /\ \A k \in Kinds :
              Count(results, Failed(k)) =
                 Cardinality({i \in SequelLookups : /\ KindOfLookup(events[i]) = k
                                                    /\ ~events[i].ok})

\* a failed movie lookup and a failed season lookup in one Ok result
C18_Witness ==
    /\ ret.done /\ ret.ok
    /\ Count(results, Failed("Movie")) = 1
    /\ Count(results, Failed("Season")) = 1
    /\ \E i \in SequelLookups : KindOfLookup(events[i]) = "Season" /\ ~events[i].ok

\* C19: two remote lookups never follow one another without a sleep in
\* between, and a sleep is always followed by a remote lookup.
C19_LookupsSpacedByDelay ==
    /\ \A i \in DOMAIN events :
          (i < Len(events) /\ events[i].ev = "lookup") =>
              events[i + 1].ev = "sleep"
    /\ \A i \in DOMAIN events :
          (i < Len(events) /\ events[i].ev = "sleep") =>
              events[i + 1].ev = "lookup"
    /\ ret.done => (events = <<>> \/ events[Len(events)].ev = "lookup")

\* C26: resolve terminates whatever the lookups do: the chain is finite, so
\* every pass of the walk's loop that is followed by another pass has moved
\* the walk on to the next sequel of the chain, a pass whose lookup failed
\* included.
C26_EveryPassMovesOn ==
    [][(pc = "walk" /\ pc' = "walk") => walk'.info # walk.info]_vars

\* the episode counts of the seasons resolved at the places S of results
RECURSIVE SumEpisodes(_)
SumEpisodes(S) ==
    IF S = {} THEN 0
    ELSE LET i == CHOOSE x \in S : TRUE
         IN  Info(results[i].id).episodes + SumEpisodes(S \ {i})

\* C27: the offset of a season resolved by the walk is the episode count of
\* the base series plus the episode counts of the seasons the walk resolved
\* before it.
C27_OffsetIsSumOfPrecedingSeasons ==
    \A i \in ResolvedSeasons :
        results[i].offset =
            Info(BaseId).episodes + SumEpisodes({j \in ResolvedSeasons : j < i})

\* two seasons resolved, the first of more than one episode and only after
\* a failed lookup
C27_Witness ==
    /\ ret.done /\ ret.ok
    /\ Cardinality(ResolvedSeasons) = 2
    /\ Count(results, Failed("Season")) = 1
    /\ \E i, j \in ResolvedSeasons :
          /\ i < j
          /\ Info(results[i].id).episodes = MaxEps
          /\ results[j].offset = remote.base + MaxEps

\* C28: no sequel of the chain is looked up or resolved when the highest
\* local episode number is at most the running offset, the offset at the
\* start (the base series' episode count) included.
C28_NoLookupWithoutLocalEpisodes ==
    /\ \A i \in DOMAIN events :
          IsChainLookup(events[i]) => EpisodesBefore(events[i].id) < SeasonHighest
    /\ \A i \in ResolvedSeasons : results[i].offset < SeasonHighest

\* the local season episodes that are the source of an action of outcome i
SourcesOf(i) ==
    {e \in DOMAIN local["Season"] :
        \E a \in DOMAIN results[i].actions :
           results[i].actions[a].old_name = local["Season"][e].filename}

\* C29: the seasons resolved by one walk take disjoint local episodes: a
\* local file is the source of at most one action of the whole result, and
\* no file numbered within the base series' own episodes is the source of
\* any.
C29_SeasonRangesDisjoint ==
    /\ \A i, j \in ResolvedSeasons : i # j => SourcesOf(i) \cap SourcesOf(j) = {}
    /\ \A i \in ResolvedSeasons :
          /\ Cardinality(SourcesOf(i)) = Len(results[i].actions)
          /\ \A e \in SourcesOf(i) :
                /\ local["Season"][e].number > Info(BaseId).episodes
                /\ local["Season"][e].number > results[i].offset
                /\ local["Season"][e].number
                      <= results[i].offset + Info(results[i].id).episodes

\* two seasons resolved, each with a local episode, next to a local episode
\* of the base series
C29_Witness ==
    /\ ret.done /\ ret.ok
    /\ Cardinality(ResolvedSeasons) = 2
    /\ \A i \in ResolvedSeasons : SourcesOf(i) # {}
    /\ local["Season"][1].number <= remote.base

\* ---- split executor ----
\* the run gets as far as the loop over the actions
ReachesLoop(run) ==
    /\ series.actions # <<>>
    /\ run.before.base \/ run.env.mkdirFail # "base"
    /\ run.before.out \/ run.env.mkdirFail # "out"

\* C4: perform_split_actions is idempotent: run twice in the same
\* environment, the second run leaves the directories as the first left
\* them, and after a successful first run it succeeds as well, although every
\* target exists by then: it goes through all the actions.
C4_SecondRunIdempotent ==
    (prev.done /\ last.done /\ last.env = prev.env) =>
        /\ last.after = prev.after
        /\ prev.ok =>
              /\ last.ok
              /\ series.actions # <<>> =>
                    Targets(series) \subseteq DOMAIN last.before.entries
              /\ Len(last.attempted) = Len(series.actions)

\* a first run that made links, and a second, successful run over them
C4_Witness ==
    /\ prev.done /\ last.done /\ last.env = prev.env
    /\ Len(series.actions) >= 2
    /\ prev.ok /\ last.ok
    /\ prev.before.entries = EmptyMap
    /\ Targets(series) \subseteq DOMAIN last.before.entries
    /\ last.after = prev.after

\* C5: the first link creation that fails with an error other than
\* AlreadyExists makes the call return an error, and no link is attempted
\* for the actions after it: their targets are as they were.
C5_AbortsAtFirstFatalFailure ==
    last.done =>
        /\ (ReachesLoop(last) /\ last.env.failAt \in 1..Len(series.actions)) =>
              /\ ~last.ok
              /\ last.err = "failed to symlink files"
              /\ last.failed = last.env.failAt
        /\ last.failed > 0 =>
              /\ ~last.ok
              /\ last.attempted = [k \in 1..last.failed |-> k]
              /\ \A j \in (last.failed)..Len(series.actions) :
                    LET t == series.actions[j].new_name
                    IN  IF t \in DOMAIN last.before.entries
                        THEN /\ t \in DOMAIN last.after.entries
                             /\ last.after.entries[t] = last.before.entries[t]
                        ELSE t \notin DOMAIN last.after.entries

\* the second of three links fails after the first was made
C5_Witness ==
    /\ last.done
    /\ Len(series.actions) = 3
    /\ last.failed = 2
    /\ series.actions[1].new_name \notin DOMAIN last.before.entries
    /\ series.actions[1].new_name \in DOMAIN last.after.entries
    /\ series.actions[3].new_name \notin DOMAIN last.after.entries

\* C22: with no actions perform_split_actions returns Ok and leaves the
\* file system as it is: no directory is created, no link is made, also
\* where creating a directory would have failed.
C22_NoActionsNoEffect ==
    (last.done /\ series.actions = <<>>) =>
        /\ last.ok
        /\ last.after = last.before
        /\ last.attempted = <<>>

\* no actions, both directories missing, and a directory creation that
\* would fail
C22_Witness ==
    /\ last.done /\ last.ok
    /\ series.actions = <<>>
    /\ ~last.before.base /\ ~last.before.out
    /\ last.env.mkdirFail # None
    /\ fs = last.before

\* C23: with at least one action, a link is attempted only once both
\* directories exist; a directory creation that fails makes the call
\* return the error at once, with no link attempted or made.
C23_DirectoriesBeforeLinks ==
    (last.done /\ series.actions # <<>>) =>
        /\ last.attempted # <<>> => (last.after.base /\ last.after.out)
        /\ last.env.mkdirFail # None =>
              /\ ~last.ok
              /\ last.err = "dir creation"
              /\ last.attempted = <<>>
              /\ last.after.entries = last.before.entries
              /\ last.after.out = last.before.out
              /\ ~(last.after.base /\ last.after.out)
        /\ last.env.mkdirFail = None =>
              (last.after.base /\ last.after.out /\ last.attempted # <<>>)

\* the base directory is created, then the creation of the output
\* directory fails
C23_Witness ==
    /\ last.done /\ ~last.ok
    /\ Len(series.actions) >= 2
    /\ ~last.before.base /\ last.after.base
    /\ last.env.mkdirFail = "out"
    /\ last.after.entries = EmptyMap

\* the output directory's content after a successful run from entries
LinksAfter(entries) ==
    [t \in DOMAIN entries \cup Targets(series) |->
        IF t \in DOMAIN entries THEN entries[t] ELSE SourceOf(series, t)]

\* C25: a run that aborts undoes nothing: what was there and the links made
\* before the failure stay; a next run in which nothing fails succeeds and
\* leaves what one successful run from the first state would have left.
C25_RerunAfterAbortCompletes ==
    (prev.done /\ last.done /\ ~prev.ok) =>
        /\ \A t \in DOMAIN prev.before.entries :
              t \in DOMAIN prev.after.entries
                 /\ prev.after.entries[t] = prev.before.entries[t]
        /\ \A k \in 1..(prev.failed - 1) :
              LET t == series.actions[k].new_name
              IN  /\ t \in DOMAIN prev.after.entries
                  /\ prev.after.entries[t] = LinksAfter(prev.before.entries)[t]
        /\ (last.env.mkdirFail = None /\ last.env.failAt = 0) =>
              /\ last.ok
              /\ last.after = [base |-> TRUE, out |-> TRUE,
                                entries |-> LinksAfter(prev.before.entries)]

\* the second link of a run fails after the first was made, and the next
\* run makes the missing links
C25_Witness ==
    /\ prev.done /\ last.done
    /\ prev.failed = 2 /\ Len(series.actions) = 3
    /\ prev.before.entries = EmptyMap
    /\ DOMAIN prev.after.entries = {series.actions[1].new_name}
    /\ last.ok
    /\ DOMAIN last.after.entries = Targets(series)

\* C30: perform_split_actions only adds: a directory that exists stays, an
\* entry of the output directory stays what it was, whatever it is, and a
\* new entry is the link of an action to its source.
C30_OnlyAddsEntries ==
    last.done =>
        /\ last.before.base => last.after.base
        /\ last.before.out => last.after.out
        /\ \A t \in DOMAIN last.before.entries :
              t \in DOMAIN last.after.entries
                 /\ last.after.entries[t] = last.before.entries[t]
        /\ \A t \in DOMAIN last.after.entries \ DOMAIN last.before.entries :
              t \in Targets(series)
                 /\ last.after.entries[t] = SourceOf(series, t)

\* a target that was something else before the run is still that, next to
\* a link the run made
C30_Witness ==
    /\ last.done /\ last.ok
    /\ \E t \in Targets(series) :
          /\ t \in DOMAIN last.before.entries
          /\ last.before.entries[t] = Foreign
          /\ last.after.entries[t] = Foreign
    /\ \E t \in Targets(series) :
          t \notin DOMAIN last.before.entries /\ t \in DOMAIN last.after.entries

\* ---- episode matcher ----
\* C8: from_pattern succeeds only for patterns with both named groups; a
\* pattern without one fails with the missing-group error naming "title" if
\* the title group is absent and "episode" otherwise, also when the pattern
\* would not compile; the default matcher of new() is always there.
C8_MissingGroupBeforeCompilation ==
    /\ matcher.call = "from_pattern" =>
          /\ matcher.res.ok =>
                /\ Contains(pattern, TitleGroupOpen)
                /\ Contains(pattern, EpisodeGroupOpen)
          /\ ~Contains(pattern, TitleGroupOpen) =>
                matcher.res = MissingGroup("title")
          /\ (Contains(pattern, TitleGroupOpen)
                /\ ~Contains(pattern, EpisodeGroupOpen)) =>
                matcher.res = MissingGroup("episode")
    /\ matcher.call = "new" => matcher.res.ok

\* a pattern that lacks both groups and does not compile either is rejected
\* for its missing title group
C8_Witness ==
    /\ matcher.call = "from_pattern"
    /\ ~Contains(pattern, TitleGroupOpen)
    /\ ~Contains(pattern, EpisodeGroupOpen)
    /\ ~RegexCompiles(pattern)
    /\ matcher.res = MissingGroup("title")

HasTitle == Contains(pattern, TitlePlaceholder) \/ Contains(pattern, TitleGroupOpen)
HasEpisode ==
    Contains(pattern, EpisodePlaceholder) \/ Contains(pattern, EpisodeGroupOpen)

MissingMatcherGroup(g) ==
    [ok |-> FALSE, err |-> "MissingEpisodeMatcherGroup", group |-> g]

\* C9 as stated: a pattern with both placeholders never fails for a missing
\* group, and a pattern with neither the placeholder nor the group for title
\* (resp. episode) fails naming that group.
C9_NamesTheAbsentGroup ==
    matcher.call = "with_pattern" =>
        /\ (Contains(pattern, TitlePlaceholder)
              /\ Contains(pattern, EpisodePlaceholder)) =>
              matcher.res.err # "MissingEpisodeMatcherGroup"
        /\ ~HasTitle => matcher.res = MissingMatcherGroup("title")
        /\ ~HasEpisode => matcher.res = MissingMatcherGroup("episode")

\* C9 (amended): the placeholders are substituted before validation: a
\* pattern with both placeholders never fails for a missing group; a pattern
\* with neither placeholder nor group for title fails naming "title"; one
\* that has the title but neither placeholder nor group for episode fails
\* naming "episode".
C9_SubstitutedBeforeValidation ==
    matcher.call = "with_pattern" =>
        /\ (Contains(pattern, TitlePlaceholder)
              /\ Contains(pattern, EpisodePlaceholder)) =>
              matcher.res.err # "MissingEpisodeMatcherGroup"
        /\ (HasTitle /\ HasEpisode) =>
              matcher.res.err # "MissingEpisodeMatcherGroup"
        /\ ~HasTitle => matcher.res = MissingMatcherGroup("title")
        /\ (HasTitle /\ ~HasEpisode) => matcher.res = MissingMatcherGroup("episode")

\* a pattern written with both placeholders only is accepted
C9_Witness ==
    /\ matcher.call = "with_pattern"
    /\ Contains(pattern, TitlePlaceholder)
    /\ Contains(pattern, EpisodePlaceholder)
    /\ ~Contains(pattern, TitleGroupOpen)
    /\ ~Contains(pattern, EpisodeGroupOpen)
    /\ matcher.res.ok

\* ---- directory scan ----
\* the entries the scan hands to the matcher
Files ==
    {i \in 1..Len(dir) : ~dir[i].isDir /\ ~EndsWith(dir[i].fname, PartSuffix)}

Parsed(i) == EpisodeParse(dir[i].fname, regex)

\* the first file that does not parse to the title of the first file
Offending ==
    {i \in Files : ~Parsed(i).ok \/ Parsed(i).name # Parsed(Min(Files)).name}

\* C10: the title of the first parsed file is the expected title; the first
\* file with another title makes the scan fail with MultipleTitles carrying
\* the expected and the found title; a successful scan maps only files of
\* one title.
C10_SingleTitle ==
    scan.done =>
        /\ scan.res.ok =>
              /\ scan.res.title = Parsed(Min(Files)).name
              /\ \A i \in Files : Parsed(i).ok /\ Parsed(i).name = scan.res.title
              /\ \A n \in DOMAIN scan.res.paths :
                    \E i \in Files : /\ dir[i].fname = scan.res.paths[n]
                                     /\ Parsed(i).name = scan.res.title
        /\ (Offending # {} /\ Parsed(Min(Offending)).ok) =>
              /\ scan.res.err = "MultipleTitles"
              /\ scan.res.at = Min(Offending)
              /\ scan.res.expecting = Parsed(Min(Files)).name
              /\ scan.res.found = Parsed(Min(Offending)).name
        /\ scan.res.err = "MultipleTitles" =>
              /\ Offending # {}
              /\ scan.res.at = Min(Offending)
              /\ scan.res.found # scan.res.expecting

\* two files of one title, then one of another title
C10_Witness ==
    /\ scan.done
    /\ scan.res.err = "MultipleTitles"
    /\ scan.res.at = 3
    /\ Cardinality(Files) = 3

IsFile(entry) == ~entry.isDir /\ ~EndsWith(entry.fname, PartSuffix)

Skipped == (1..Len(dir)) \ Files

\* the files that Episode::parse rejects
Unparsed == {i \in Files : ~Parsed(i).ok}

\* the files that parse to episode number n
Numbered(n) == {i \in Files : Parsed(i).ok /\ Parsed(i).num = n}

\* C11: subdirectories and ".part" files are passed over before the matcher
\* is invoked: the scan gives what it gives on the directory without them,
\* no error is raised at such an entry and none is in the mapping.
C11_SkippedEntriesIgnored ==
    scan.done =>
        LET clean == EpisodeListParse(SelectSeq(dir, IsFile), regex)
        IN  /\ scan.res.ok = clean.ok
            /\ scan.res.err = clean.err
            /\ scan.res.title = clean.title
            /\ scan.res.paths = clean.paths
            /\ scan.res.expecting = clean.expecting
            /\ scan.res.found = clean.found
            /\ scan.res.at \notin Skipped
            /\ \A n \in DOMAIN scan.res.paths :
                  \A i \in Skipped : scan.res.paths[n] # dir[i].fname

\* a successful scan of a directory with a subdirectory whose name parses to
\* another title and a ".part" file that the pattern does not match
C11_Witness ==
    /\ scan.done /\ scan.res.ok
    /\ \E i \in Skipped : /\ dir[i].isDir
                           /\ Parsed(i).ok
                           /\ Parsed(i).name # scan.res.title
    /\ \E j \in Skipped : ~dir[j].isDir /\ ~Parsed(j).ok

\* C12 as stated: whenever a file does not parse, the scan returns the
\* error of (the first such) file.
C12_ReturnsTheParseError ==
    (scan.done /\ Unparsed # {}) =>
        /\ ~scan.res.ok
        /\ scan.res.err = Parsed(Min(Unparsed)).err

\* C12: a file that does not parse makes the whole scan fail, without a
\* partial list; the error is that of the first such file unless a file
\* before it parsed to a conflicting title, and then it is MultipleTitles.
C12_FailClosed ==
    (scan.done /\ Unparsed # {}) =>
        /\ ~scan.res.ok
        /\ scan.res.title = None
        /\ scan.res.paths = EmptyMap
        /\ scan.res.at = Min(Offending)
        /\ ~Parsed(Min(Offending)).ok =>
              /\ Min(Offending) = Min(Unparsed)
              /\ scan.res.err = Parsed(Min(Unparsed)).err
        /\ Parsed(Min(Offending)).ok =>
              /\ Min(Offending) < Min(Unparsed)
              /\ scan.res.err = "MultipleTitles"

\* two files parse to one title and the third does not parse
C12_Witness ==
    /\ scan.done
    /\ Cardinality(Files) = 3
    /\ Unparsed = {3}
    /\ scan.res.at = 3
    /\ scan.res.err = Parsed(3).err
    /\ Parsed(1).name = Parsed(2).name

\* C13: a scan in which no file was parsed fails with NoEpisodes, so a
\* successful scan has a title and at least one episode.
C13_NoEpisodesWhenNothingParsed ==
    scan.done =>
        /\ Files = {} => (~scan.res.ok /\ scan.res.err = "NoEpisodes")
        /\ scan.res.err = "NoEpisodes" => Files = {}
        /\ scan.res.ok =>
              /\ scan.res.title # None
              /\ DOMAIN scan.res.paths # {}
              /\ Files # {}

\* a directory that holds only a subdirectory and a ".part" file
C13_Witness ==
    /\ scan.done
    /\ scan.res.err = "NoEpisodes"
    /\ \E i, j \in 1..Len(dir) :
          dir[i].isDir /\ ~dir[j].isDir /\ EndsWith(dir[j].fname, PartSuffix)

\* C14 as stated: files that parse to one episode number never make the
\* scan fail.
C14_DuplicatesNeverFail ==
    (scan.done /\ \E i \in Files : Cardinality(Numbered(Parsed(i).num)) > 1) =>
        scan.res.ok

\* C14: a repeated episode number is not an error: the scan succeeds when
\* every file parses and all agree on the title, and a successful scan maps
\* each number to the file enumerated last among those with that number.
C14_LastDuplicateWins ==
    scan.done =>
        /\ (Files # {} /\ Offending = {}) => scan.res.ok
        /\ scan.res.ok =>
              /\ DOMAIN scan.res.paths = {Parsed(i).num : i \in Files}
              /\ \A n \in DOMAIN scan.res.paths :
                    scan.res.paths[n] = dir[Max(Numbered(n))].fname

\* two files of one title and one number: the mapping holds the later one
C14_Witness ==
    /\ scan.done /\ scan.res.ok
    /\ \E n \in DOMAIN scan.res.paths :
          /\ Cardinality(Numbered(n)) = 2
          /\ scan.res.paths[n] = dir[Max(Numbered(n))].fname
          /\ scan.res.paths[n] # dir[Min(Numbered(n))].fname

\* ---- split series panel ----

\* C20: once the task has ended, for whatever reason, the panel state has
\* left Loading; the state is stored under the panel's lock and a draw
\* never renders a state that is stored in part.
C20_TaskEndLeavesLoading ==
    /\ split_task.pc = "done" => panel_state.tag # "Loading"
    /\ HalfWritten(panel_state) => locks.panel = "task"
    /\ ~HalfWritten(drawn)

\* C21: while the task is inside resolve, where it waits on the remote
\* lookups and sleeps between them, it holds neither the lock of the shared
\* UI state nor the lock of the panel state.
C21_NoLockHeldWhileResolving ==
    split_task.pc = "resolve" =>
        /\ locks.state # "task"
        /\ locks.panel # "task"


\* the places of the resolved series of the batch
BatchResolvedAt == {i \in 1..Len(merged) : merged[i].tag = "Resolved"}

\* the place after the last one split_all went through
BatchStop == IF split_all.failed = 0 THEN Len(merged) + 1 ELSE split_all.failed

\* the run of outcome i cannot succeed: a link of it fails, or the run has
\* links to create and a directory it needs cannot be created
RunMustFail(i) ==
    /\ merged[i].actions # <<>>
    /\ \/ split_all.envs[i].failAt \in 1..Len(merged[i].actions)
       \/ split_all.envs[i].mkdirFail = "out"

\* C24: split_all goes through the outcomes in order, never runs a Failed
\* outcome and never fails because of one, runs every resolved series up to
\* and including the first whose run fails, returns that failure, leaves
\* every later series untouched, and returns Ok exactly when no run failed.
C24_StopsAtFirstFailedSeries ==
    split_all.done =>
        /\ split_all.attempted = Ascending({i \in BatchResolvedAt : i <= BatchStop})
        /\ split_all.ok <=> split_all.failed = 0
        /\ split_all.failed # 0 => split_all.failed \in BatchResolvedAt
        /\ \A k \in DOMAIN split_all.oks :
              split_all.oks[k] <=> split_all.attempted[k] # split_all.failed
        /\ \A i \in BatchResolvedAt :
              /\ i < BatchStop => ~RunMustFail(i)
              /\ i > BatchStop => disk.outs[i] = split_all.before.outs[i]
              /\ (i < BatchStop /\ merged[i].actions # <<>>) =>
                    /\ disk.outs[i].out
                    /\ DOMAIN disk.outs[i].entries # {}
        /\ \A i \in 1..Len(merged) \ BatchResolvedAt :
              disk.outs[i] = split_all.before.outs[i]

\* a Failed outcome was skipped, the series after it failed, and a series
\* with links to create stands after that one
C24_Witness ==
    /\ split_all.done /\ Len(merged) = 3
    /\ merged[1].tag = "Failed"
    /\ split_all.failed = 2 /\ split_all.attempted = <<2>> /\ ~split_all.ok
    /\ merged[3].tag = "Resolved" /\ merged[3].actions # <<>>
    /\ ~disk.outs[3].out


\* a step of process_key: the UI thread leaves its body
KeyStep == ui.at = "key" /\ ui'.at = "loop"

\* what a step may do to the panel state
PanelStateStep ==
    /\ (panel_state.tag = "Loading" /\ panel_state'.tag # "Loading") =>
          /\ panel_state'.tag = "Splitting"
          /\ split_task.pc = "assign" /\ split_task'.pc = "assigning"
          /\ ~KeyStep
    /\ panel_state.tag # "Loading" =>
          panel_state'.tag \in {"Splitting", "AddingSeries"}
    /\ (panel_state'.tag # panel_state.tag /\ panel_state.tag # "Loading") =>
          KeyStep
    /\ (KeyStep /\ panel_state.tag = "Loading") =>
          /\ key_result'.ret = "Ok"
          /\ panel_state' = panel_state

\* C31: the panel state starts as Loading; it leaves Loading only for
\* Splitting, in the task's store after a successful resolve; from then on it
\* is Splitting or AddingSeries and never Loading again; process_key on
\* Loading returns Ok and leaves the state as it is.
C31_LoadingLeftOnceByTheTask ==
    panel_state = Loading /\ [][PanelStateStep]_vars

\* the task stored Splitting, a key opened the add panel and a Reset of the
\* add panel brought the split panel back
C31_Witness ==
    /\ split_task.outcome = "published"
    /\ panel_state.tag = "Splitting"
    /\ key_result.some /\ key_result.before = "AddingSeries"
    /\ key_result.ret = "Ok"

\* a key was processed while the panel was loading
C31_KeyWhileLoading ==
    key_result.some /\ key_result.before = "Loading" /\ panel_state = Loading

\* the task waits for lock l
TaskWaitsFor(l) ==
    \/ l = "state" /\ split_task.pc = "start"
    \/ l = "panel" /\ split_task.pc = "publish"

\* the UI thread is where it may wait for lock l
UiMayWaitFor(l) ==
    /\ ui.at = "loop"
    /\ \/ l = "panel"
       \/ l = "state" /\ ~ui.holds

\* C32: the task and the UI thread never wait for each other: neither waits
\* for a lock the other holds while the other waits for a lock it holds;
\* whoever holds the panel's lock took the shared state's lock before it, if
\* it takes that lock at all; the task that has returned holds no lock, and
\* neither does the UI thread between two events.
C32_LocksOrderedAndReleased ==
    /\ ~ \E l1, l2 \in DOMAIN locks :
            /\ TaskWaitsFor(l1) /\ locks[l1] = "ui"
            /\ UiMayWaitFor(l2) /\ locks[l2] = "task"
    /\ \A l \in DOMAIN locks :
            /\ TaskWaitsFor(l) => locks[l] # "task"
            /\ UiMayWaitFor(l) => locks[l] # "ui"
    /\ locks.panel = "task" => locks.state = "task"
    /\ ui.at = "key" => locks.state = "ui" /\ locks.panel = "ui"
    /\ (split_task.pc = "start" /\ locks.state # "task") => locks.panel # "task"
    /\ (ui.at = "loop" /\ ~ui.holds) => locks.panel # "ui" /\ locks.state # "ui"
    /\ split_task.pc = "done" => \A l \in DOMAIN locks : locks[l] # "task"
    /\ locks.state = "ui" <=> ui.holds
    /\ locks.panel = "ui" <=> ui.at \in {"draw", "key"}

\* the task returned early, with the shared state's lock free again, and
\* the UI thread holds both locks inside process_key
C32_Witness ==
    /\ split_task.pc = "done" /\ split_task.outcome = "resolve error"
    /\ ui.at = "key" /\ locks.state = "ui" /\ locks.panel = "ui"

\* the task waits for the panel's lock while the UI thread draws
C32_TaskWaitsWhileDrawing ==
    split_task.pc = "publish" /\ locks.panel = "ui" /\ locks.state = "task"


\* ---- series entry ----

\* C33: with the remote offline the watched count stays between 0 and the
\* number of episodes of the series; episode_completed on a series whose
\* episodes are all watched leaves the count, episode_regressed on a count of
\* 0 leaves it 0.
C33_WatchedWithinSeries ==
    offline =>
        /\ tracker.entry.watched_eps \in 0..tracker.episodes
        /\ (/\ tracker_call.op = "episode_completed"
            /\ tracker_call.before.watched_eps >= tracker.episodes) =>
              tracker.entry.watched_eps = tracker_call.before.watched_eps
        /\ (/\ tracker_call.op = "episode_regressed"
            /\ tracker_call.before.watched_eps = 0) =>
              tracker.entry.watched_eps = 0

\* offline, episode_completed was called with every episode watched
C33_Witness ==
    /\ offline
    /\ tracker_call.op = "episode_completed"
    /\ tracker_call.before.watched_eps = tracker.episodes
    /\ tracker.entry.watched_eps = tracker.episodes

\* C34: a sync_changes_from_remote that meets needs_sync makes no request
\* and leaves the entry as it is, and a begin_watching that meets needs_sync
\* makes no get_list_entry request: its body works on the local entry.
C34_UnpushedChangesNotPulledOver ==
    /\ (/\ tracker_call.op = "sync_changes_from_remote"
        /\ tracker_call.before.needs_sync) =>
          /\ tracker_call.requests = <<>>
          /\ tracker_call.ok
          /\ tracker.entry = tracker_call.before
    /\ (/\ tracker_call.op = "begin_watching"
        /\ tracker_call.before.needs_sync) =>
          /\ tracker_call.pulled = "no pull"
          /\ \A i \in DOMAIN tracker_call.requests :
                tracker_call.requests[i] # "get_list_entry"
          /\ tracker_call.met = tracker_call.before

\* online, begin_watching met unpushed changes, pulled nothing and went on to
\* push the entry
C34_Witness ==
    /\ ~offline
    /\ tracker_call.op = "begin_watching"
    /\ tracker_call.before.needs_sync
    /\ tracker_call.before.status = "Completed"
    /\ tracker_call.requests = <<"update_list_entry">>
    /\ tracker.entry.status = "Rewatching"

\* the call that was just made is a setter of the entry
SetterCalled == tracker_call'.op \in {"set_score", "set_status"}

\* the step took needs_sync from true to false
SyncNeedCleared == tracker.entry.needs_sync /\ ~tracker'.entry.needs_sync

\* what holds of needs_sync in every step, whatever clears it
NeedsSyncStep ==
    /\ SetterCalled => tracker'.entry.needs_sync
    /\ Inner(tracker'.entry) # Inner(tracker.entry) =>
          \/ tracker'.entry.needs_sync
          \/ tracker_call'.pushed
          \/ tracker_call'.pulled = "entry"
    /\ (tracker.entry.needs_sync /\ offline) => tracker'.entry.needs_sync
    /\ (/\ tracker.entry.needs_sync
        /\ tracker_call'.requests # <<>>
        /\ tracker_call'.requests[Len(tracker_call'.requests)] = "update_list_entry"
        /\ ~tracker_call'.pushed) => tracker'.entry.needs_sync

\* C35 as stated: needs_sync, once true, becomes false only when
\* update_list_entry succeeded online or a pull replaced the entry.
C35_ClearedByPushOrReplacementOnly ==
    [][/\ NeedsSyncStep
       /\ SyncNeedCleared =>
             \/ ~offline /\ tracker_call'.pushed
             \/ tracker_call'.pulled = "entry"]_vars

\* C35: every setter sets needs_sync; once true it becomes false only when
\* update_list_entry succeeded online or when force_sync_changes_from_remote
\* got an answer from the remote: an entry, which replaces the local one, or
\* no entry, which leaves the local entry and clears the flag; offline it
\* never becomes false, and a failed push leaves it true.
C35_ClearedByPushOrForcedPull ==
    [][/\ NeedsSyncStep
       /\ SyncNeedCleared =>
             \/ ~offline /\ tracker_call'.pushed
             \/ /\ ~offline
                /\ tracker_call'.op = "force_sync_changes_from_remote"
                /\ tracker_call'.pulled \in {"entry", "no entry"}
                /\ tracker_call'.pulled = "no entry" =>
                      Inner(tracker'.entry) = Inner(tracker.entry)]_vars

\* a forced pull found no entry on the remote: the changed entry stays and
\* needs_sync is false
C35_Witness ==
    /\ tracker_call.op = "force_sync_changes_from_remote"
    /\ tracker_call.before.needs_sync
    /\ tracker_call.pulled = "no entry"
    /\ ~tracker.entry.needs_sync
    /\ Inner(tracker.entry) = Inner(tracker_call.before)

\* a push failed and needs_sync is still true
C35_FailedPush ==
    /\ tracker_call.requests = <<"update_list_entry">>
    /\ ~tracker_call.pushed /\ ~tracker_call.ok
    /\ tracker.entry.needs_sync

\* C38: when the match of begin_watching meets Watching or Rewatching with
\* every episode watched, the status becomes Rewatching, the watched count 0,
\* and times_rewatched goes up by one if the status was Rewatching and stays
\* otherwise; with episodes left to watch, it changes none of the three.
C38_RewatchStartsWhenAllWatched ==
    (/\ tracker_call.op = "begin_watching"
     /\ tracker_call.matched
     /\ tracker_call.met.status \in {"Watching", "Rewatching"}) =>
        IF tracker_call.met.watched_eps >= tracker.episodes
        THEN /\ tracker.entry.status = "Rewatching"
             /\ tracker.entry.watched_eps = 0
             /\ tracker.entry.times_rewatched =
                    IF tracker_call.met.status = "Rewatching"
                    THEN tracker_call.met.times_rewatched + 1
                    ELSE tracker_call.met.times_rewatched
        ELSE /\ tracker.entry.status = tracker_call.met.status
             /\ tracker.entry.watched_eps = tracker_call.met.watched_eps
             /\ tracker.entry.times_rewatched = tracker_call.met.times_rewatched

\* begin_watching met Rewatching with every episode watched and counted the
\* rewatch
C38_Witness ==
    /\ tracker_call.op = "begin_watching" /\ tracker_call.matched
    /\ tracker_call.met.status = "Rewatching"
    /\ tracker_call.met.watched_eps >= tracker.episodes
    /\ tracker.entry.times_rewatched = tracker_call.met.times_rewatched + 1
    /\ tracker.entry.watched_eps = 0

UIKeyStep == ui_event'.turn # ui_event.turn /\ ui_event'.kind = "key"

\* a tick was processed in this step
UITickStep == ui_event'.turn # ui_event.turn /\ ui_event'.kind = "tick"

\* the tick of this step saw that the player had exited
ExitSeen == UITickStep /\ ui_event'.observed \in {"success", "failure"}

WatchingStep ==
    ui_state.watch_state = "Watching" =>
        /\ UIKeyStep =>
              /\ ui_event'.ok
              /\ UNCHANGED <<ui_state, tracker, child, players, time_up, watch_log>>
        /\ watch_log'.started = watch_log.started
        /\ players' <= players
        /\ ui_state' # ui_state =>
              ExitSeen /\ ui_state' = [ui_state EXCEPT !.watch_state = "Idle"]
        /\ tracker' # tracker => ExitSeen /\ ui_state'.watch_state = "Idle"

\* C36: while a player is watched, process_key ignores every key and changes
\* nothing: at most one player process is in flight, none when the watch
\* state is Idle, and the entry of the series changes only in the tick that
\* has seen the player's exit and set the watch state back to Idle
C36_KeysIgnoredWhileWatching ==
    /\ [](/\ players \in 0..1
          /\ ui_state.watch_state = "Idle" => players = 0 /\ child = "none"
          /\ ui_state.watch_state = "Watching" => child # "none")
    /\ [][WatchingStep]_vars

\* a key has just been ignored while the player was running
C36_Witness ==
    /\ ui_state.watch_state = "Watching" /\ players = 1
    /\ ui_event.kind = "key"
    /\ watch_log.started = 1

HandledOnce ==
    /\ watch_log.started - watch_log.exited = IF child = "running" THEN 1 ELSE 0
    /\ watch_log.exited - watch_log.handled =
          IF child \in {"success", "failure"} THEN 1 ELSE 0
    /\ watch_log.completed <= watch_log.handled
    /\ ui_event.completed => ui_event.observed = "success" /\ time_up

TickStep ==
    UITickStep =>
        /\ ui_event'.observed \in {"idle", "running", "error"} =>
              UNCHANGED <<ui_state, tracker, child, players, time_up, watch_log>>
        /\ ui_event'.observed = "idle" <=> ui_state.watch_state = "Idle"
        /\ ui_event'.observed = "running" => child = "running"
        /\ ExitSeen =>
              /\ ui_state.watch_state = "Watching" /\ ui_event'.observed = child
              /\ ui_state'.watch_state = "Idle" /\ child' = "none"
              /\ watch_log'.handled = watch_log.handled + 1
        /\ ui_event'.completed <=>
              ExitSeen /\ child = "success" /\ time_up /\ ui_state.selected = ValidSeries
        /\ watch_log'.completed =
              watch_log.completed + IF ui_event'.completed THEN 1 ELSE 0
        /\ tracker' # tracker => ui_event'.completed

\* C37: each exit of the player is handled exactly once, by the first tick
\* that sees it: that tick sets the watch state to Idle whatever follows, and
\* calls episode_completed at most once, only when the player exited properly
\* and the time to watch has passed; a tick while the player runs or in Idle
\* changes nothing
C37_ExitHandledOnce == []HandledOnce /\ [][TickStep]_vars

\* a second episode was completed by the tick that saw its player exit
C37_Witness ==
    /\ ui_event.kind = "tick" /\ ui_event.completed
    /\ watch_log = [started |-> 2, exited |-> 2, handled |-> 2, completed |-> 2]
    /\ ui_state.watch_state = "Idle"

====
